---- MODULE Spec2Model ----
(***************************************************************************)
(* A model of the resilient fetch / aggregate / cache engine of            *)
(* kerkerker-douban-service.                                               *)
(*                                                                         *)
(* The module holds one state machine per component, all over the same     *)
(* variables; each component has its own next-state relation and its own   *)
(* specification, so that a component is explored without the others       *)
(* moving:                                                                 *)
(*   SpecFetch    Client.Fetch, one loop iteration per step                *)
(*   SpecKeys     TMDBService.getNextKey under concurrent callers          *)
(*   SpecCache    Cache.Get / Set / Delete / DeletePattern over the store  *)
(*   SpecHandler  the cache-aside read path of the data handlers           *)
(***************************************************************************)
EXTENDS Integers, Sequences, FiniteSets, TLC

VARIABLES
    \* ---- Client.Fetch (src/pkg/httpclient/client.go) ----
    fetchPc,      \* "idle" | "loop" | "done": where the call to Fetch stands
    attempt,      \* the loop variable of Fetch
    lastErr,      \* the local lastErr of Fetch
    fetchRet,     \* what Fetch returned: [body, err, wrapped]
    outcomes,     \* what the upstream did on each attempt made so far
    slept,        \* the time.Sleep calls made: <<[after, dur], ...>>
    \* ---- TMDBService.getNextKey (src/unnamed/part_005) ----
    apiKeys,      \* the configured key pool (immutable after construction)
    keyIndex,     \* the atomic cursor s.keyIndex
    callerPc,     \* per caller: "idle" | "added"
    callerIdx,    \* per caller: the idx its atomic.AddUint64 gave it
    observed,     \* the idx values handed out, in the order of the atomic adds
    returned,     \* the keys returned by completed calls, in completion order
    \* ---- Cache (src/internal/repository/cache.go) ----
    store,        \* the external key-value store: key -> payload or Absent
    lastOp,       \* the last Cache call and what it returned
    written,      \* per key: the Go value of the last successful Set still in
                  \* place, or NoValue after any other change to the key
    \* ---- data handlers (src/internal/handler, src/unnamed) ----
    reqPc,        \* where the request stands
    reqHandler,   \* the handler serving the request
    reqLookup,    \* what the handler's cache.Get returned
    results,      \* the fan-out's result slots
    taskOutcome,  \* per sub-task: "pending" or what its SearchSubjects returned
    primary,      \* outcome of the handler's primary upstream fetch
    setErr,       \* whether the write-back cache.Set failed
    resp,         \* the response written
    cache_source, \* the key "cache_source" of the request's gin context
    recorded,     \* whether the Metrics middleware has recorded the request
    \* ---- cache invalidation handlers (src/internal/handler, src/unnamed) ----
    invResp,      \* the response of the last invalidation request
    \* ---- enrichment of GetDetail and Search ----
    enPc,         \* "idle" | "wait" | "responded"
    enReq,        \* the request followed: [handler, id, typ]
    detail,       \* GetDetail's abstract subject
    searchQuery,  \* GetDetail's cleaned title
    locals,       \* the variables the goroutines assign, by name
    enDone,       \* per goroutine: Running, or what its service call returned
    enResp,       \* the response written
    \* ---- HeroHandler.GetHero (src/internal/handler/cache_config.go) ----
    heroPc,       \* "idle" | "units" | "responded"
    heroInput,    \* the subjects SearchSubjects answers with
    subjects,     \* the sorted, truncated subjects
    units,        \* per subject: its goroutine, its inner goroutines, its locals
    reqExpired,   \* whether the request's context is done
    resultChan,   \* the results sent and not yet received
    chanClosed,   \* whether resultChan is closed
    heroResults,  \* the slots `results`
    heroResp,     \* the response written
    \* ---- Metrics (src/unnamed/part_000) ----
    mdb,          \* the metrics store
    seen,         \* per path: the latencies recorded since the last reset
    pending,      \* the commands of a sent pipeline the server has yet to execute
    metricsRet,   \* what the last call on Metrics returned
    reading,      \* the locals of a GetOverallStats under way
    clock,        \* the calendar day time.Now() falls in, as a day number
    tdb,          \* the daily hashes of the metrics store, by day
    trendLoop,    \* getDailyTrend under way: [pc, i, startedAt]
    trend,        \* the local `trend` of getDailyTrend, each entry with the
                  \* `result` it was computed from
    \* ---- TMDBService.findBestMatch (src/unnamed/part_005) ----
    matchArgs,    \* the arguments: [results, searchTitle, year]
    matchGiven,   \* the list of candidates as the caller passed it
    matchLoop,    \* the loop: [pc, i, bestScore, bestMatch, last]
    \* ---- the requests of Client.Fetch (src/pkg/httpclient/client.go) ----
    proxies,      \* c.proxies, the pool given to NewClient
    targetURL,    \* the argument of Fetch
    requests,     \* per attempt made: the URL settled on and the request built
    \* ---- TMDBService.SearchMovieBackdrop (src/unnamed/part_005) ----
    backdropRet,  \* what the last call made on its own returned
    tmdbRequests, \* the requests those calls sent to TMDB
    \* ---- the cache keys as strings (search.go, new.go, part_002) ----
    keyReqs,      \* two requests of one handler, <<>> when none is followed
    builtKeys,    \* the cache keys built for them
    \* ---- the expiration of the cache entries (cache.go, part_006) ----
    cfg,          \* the TTL fields of the loaded configuration
    expires,      \* per class of data: <<ttl>> of its entry, <<>> without one
    \* ---- the pagination of GetCategory and GetNew (part_002, new.go) ----
    pgReq,        \* the request followed: [handler, page, size]
    pgStore,      \* the cache entry of its key: <<>> or <<[subjects, total]>>
    pgResp,       \* the last response: [kind, count, total, hasMore]
    pgFresh,      \* the fresh response that last wrote the entry
    \* ---- the admin routes (admin_auth.go, part_006) ----
    authKey,      \* cfg.AdminAPIKey
    authReq,      \* the last request: [route, header, query]
    authResp,     \* its answer: [status, ran], ran: the handler ran
    \* ---- the server's start time (src/unnamed/part_000) ----
    startTime,    \* the value of metrics:server:start_time, 0 without the key
    upClock,      \* time.Now().Unix()
    \* ---- concurrent requests of GetMovies (src/unnamed/part_003) ----
    concPc,       \* per request: "idle" | "wait" | "responded"
    concResults,  \* the `results` slices made, by the request that made each
    concFetched   \* per request: what its sub-fetches returned

fetchVars   == <<fetchPc, attempt, lastErr, fetchRet, outcomes, slept>>
keyVars     == <<apiKeys, keyIndex, callerPc, callerIdx, observed, returned>>
cacheVars   == <<store, lastOp, written>>
handlerVars == <<reqPc, reqHandler, reqLookup, results, taskOutcome, primary,
                 setErr, resp, cache_source, recorded>>
invVars     == <<invResp>>
enrichVars  == <<enPc, enReq, detail, searchQuery, locals, enDone, enResp>>
heroVars    == <<heroPc, heroInput, subjects, units, reqExpired, resultChan,
                 chanClosed, heroResults, heroResp>>
metricVars  == <<mdb, seen, pending, metricsRet, reading>>
trendVars   == <<clock, tdb, trendLoop, trend>>
matchVars   == <<matchArgs, matchGiven, matchLoop>>
routeVars   == <<proxies, targetURL, requests>>
backdropVars == <<backdropRet, tmdbRequests>>
keyOfVars   == <<keyReqs, builtKeys>>
ttlVars     == <<cfg, expires>>
pageVars    == <<pgReq, pgStore, pgResp, pgFresh>>
authVars    == <<authKey, authReq, authResp>>
uptimeVars  == <<startTime, upClock>>
concVars    == <<concPc, concResults, concFetched>>
vars        == <<fetchVars, keyVars, cacheVars, handlerVars, invVars, enrichVars,
                 heroVars, metricVars, trendVars, matchVars, routeVars, backdropVars, keyOfVars, ttlVars, pageVars, authVars, uptimeVars, concVars>>

(***************************************************************************)
(* Client.Fetch                                                            *)
(***************************************************************************)

\* NewClient: retries: 3
retries == 3
\* NewClient: retryDelay: 1 * time.Second (the model counts seconds)
retryDelay == 1

\* The status codes the upstream answers with in the model.
Statuses == {200, 204, 403, 404, 429, 500}
Bodies   == {"b1", "b2"}

NoErr == [e |-> "nil", status |-> 0]

\* What one attempt can meet: http.NewRequest failing, httpClient.Do failing,
\* a response with a status and a body, or a 200 whose body cannot be read
\* to its end (io.ReadAll returns the part read and an error).
Outcomes ==
    {[kind |-> "reqErr", status |-> 0, body |-> "none"],
     [kind |-> "transport", status |-> 0, body |-> "none"]}
    \cup {[kind |-> "resp", status |-> s, body |-> b] : s \in Statuses, b \in Bodies}
    \cup {[kind |-> "readErr", status |-> 200, body |-> "partial"]}

\* The error an attempt observes (the value the code assigns to lastErr), NoErr
\* for none.
ErrOf(o) ==
    CASE o.kind = "reqErr"    -> [e |-> "request", status |-> 0]
      [] o.kind = "transport" -> [e |-> "transport", status |-> 0]
      [] o.kind = "readErr"   -> [e |-> "read", status |-> 0]
      [] o.kind = "resp" /\ o.status # 200 -> [e |-> "http", status |-> o.status]
      [] OTHER -> NoErr

\* Whether the code sleeps after a failed attempt with this outcome: only the
\* httpClient.Do error branch and the 403/429 branch call time.Sleep.
SleepsAfter(o) ==
    \/ o.kind = "transport"
    \/ o.kind = "resp" /\ o.status \in {403, 429}

\* waitTime := c.retryDelay * time.Duration(math.Pow(2, float64(attempt-1)))
waitTime(a) == retryDelay * 2 ^ (a - 1)

\* The loop condition `attempt <= c.retries`; the variant runs the loop once
\* more than the budget allows.
LoopContinuesOnceMore(a) == a <= retries + 1
LoopContinues(a) == a <= retries

\* Whether the attempt ends the loop with `return body, nil`: the status is
\* http.StatusOK and io.ReadAll read the body to its end. The variant returns
\* whatever io.ReadAll read, its error unchecked.
SucceedsUncheckedRead(o) == o.kind \in {"resp", "readErr"} /\ o.status = 200
Succeeds(o) == o.kind = "resp" /\ o.status = 200

\* The value Fetch returns from inside the loop.
ReturnBody(o) == [body |-> o.body, err |-> "nil", wrapped |-> NoErr]

\* return nil, fmt.Errorf("all retries failed: %w", lastErr)
ReturnExhausted(e) == [body |-> "nil", err |-> "all retries failed", wrapped |-> e]

NoRet == [body |-> "nil", err |-> "none", wrapped |-> NoErr]

FetchInit ==
    /\ fetchPc = "idle"
    /\ attempt = 1
    /\ lastErr = NoErr
    /\ fetchRet = NoRet
    /\ outcomes = <<>>
    /\ slept = <<>>

\* A caller enters Fetch: var lastErr error; attempt := 1.
FetchCall ==
    /\ fetchPc \in {"idle", "done"}
    /\ fetchPc' = "loop"
    /\ attempt' = 1
    /\ lastErr' = NoErr
    /\ fetchRet' = NoRet
    /\ outcomes' = <<>>
    /\ slept' = <<>>

\* One iteration of the retry loop, meeting outcome o.
FetchAttempt(o) ==
    /\ fetchPc = "loop"
    /\ LoopContinues(attempt)
    /\ outcomes' = Append(outcomes, o)
    /\ IF Succeeds(o)
       THEN /\ fetchPc' = "done"
            /\ fetchRet' = ReturnBody(o)
            /\ UNCHANGED <<attempt, lastErr, slept>>
       ELSE /\ lastErr' = ErrOf(o)
            /\ slept' = IF SleepsAfter(o) /\ attempt < retries
                        THEN Append(slept, [after |-> attempt, dur |-> waitTime(attempt)])
                        ELSE slept
            /\ attempt' = attempt + 1
            /\ UNCHANGED <<fetchPc, fetchRet>>

\* The loop ran out: attempt > c.retries.
FetchExhausted ==
    /\ fetchPc = "loop"
    /\ ~ LoopContinues(attempt)
    /\ fetchPc' = "done"
    /\ fetchRet' = ReturnExhausted(lastErr)
    /\ UNCHANGED <<attempt, lastErr, outcomes, slept>>

FetchFrame ==
    UNCHANGED <<keyVars, cacheVars, handlerVars, invVars, enrichVars, heroVars, metricVars, trendVars, matchVars, routeVars, backdropVars, keyOfVars, ttlVars, pageVars, authVars, uptimeVars, concVars>>

NextFetch ==
    \/ FetchCall /\ FetchFrame
    \/ \E o \in Outcomes : FetchAttempt(o) /\ FetchFrame
    \/ FetchExhausted /\ FetchFrame

(***************************************************************************)
(* TMDBService.getNextKey                                                  *)
(***************************************************************************)

\* Pool sizes, callers and calls explored.
MaxKeys    == 3
MaxCallers == 2
MaxCalls   == 4

Callers == 1 .. MaxCallers

\* A pool of n keys; key i of the pool is written i, and "" (no key) is 0.
KeyPool(n) == [i \in 1 .. n |-> i]
NoKey == 0

\* atomic.AddUint64(&s.keyIndex, 1): the new value of the cursor. The cursor
\* is a uint64; the model stops every run at MaxCalls calls, far below 2^64,
\* so the addition never wraps here. The variant loses the update made at
\* cursor value 1, as a plain read-modify-write raced by a second caller does.
AddUint64Lost(v) == IF v = 1 THEN v ELSE v + 1
AddUint64(v) == v + 1

\* s.apiKeys[idx%uint64(len(s.apiKeys))] (Go indexes from 0, TLA+ from 1).
KeyAt(keys, idx) == keys[(idx % Len(keys)) + 1]

\* len(s.apiKeys) > 0. The variant reports a service that has a base URL as
\* configured.
IsConfiguredAlways == TRUE
IsConfigured == Len(apiKeys) > 0

KeysInit ==
    /\ apiKeys \in {KeyPool(n) : n \in 0 .. MaxKeys}
    /\ keyIndex = 0
    /\ callerPc = [c \in Callers |-> "idle"]
    /\ callerIdx = [c \in Callers |-> 0]
    /\ observed = <<>>
    /\ returned = <<>>

\* getNextKey with an empty pool: return "" without touching the cursor.
getNextKeyEmpty(c) ==
    /\ callerPc[c] = "idle"
    /\ Len(apiKeys) = 0
    /\ Len(returned) < MaxCalls
    /\ returned' = Append(returned, NoKey)
    /\ UNCHANGED <<apiKeys, keyIndex, callerPc, callerIdx, observed>>

\* idx := atomic.AddUint64(&s.keyIndex, 1) - 1, one atomic step.
getNextKeyAdd(c) ==
    /\ callerPc[c] = "idle"
    /\ Len(apiKeys) > 0
    /\ Len(observed) < MaxCalls
    /\ keyIndex' = AddUint64(keyIndex)
    /\ callerIdx' = [callerIdx EXCEPT ![c] = keyIndex' - 1]
    /\ observed' = Append(observed, keyIndex' - 1)
    /\ callerPc' = [callerPc EXCEPT ![c] = "added"]
    /\ UNCHANGED <<apiKeys, returned>>

\* return s.apiKeys[idx % len], a later step of the same call.
getNextKeyReturn(c) ==
    /\ callerPc[c] = "added"
    /\ returned' = Append(returned, KeyAt(apiKeys, callerIdx[c]))
    /\ callerPc' = [callerPc EXCEPT ![c] = "idle"]
    /\ UNCHANGED <<apiKeys, keyIndex, callerIdx, observed>>

KeysFrame ==
    UNCHANGED <<fetchVars, cacheVars, handlerVars, invVars, enrichVars, heroVars, metricVars, trendVars, matchVars, routeVars, backdropVars, keyOfVars, ttlVars, pageVars, authVars, uptimeVars, concVars>>

NextKeys ==
    \/ \E c \in Callers : getNextKeyEmpty(c) /\ KeysFrame
    \/ \E c \in Callers : getNextKeyAdd(c) /\ KeysFrame
    \/ \E c \in Callers : getNextKeyReturn(c) /\ KeysFrame

(***************************************************************************)
(* Go values and their JSON encoding (encoding/json as Cache uses it)      *)
(*                                                                         *)
(* A Go string is a string, an int a number, a slice the record            *)
(* [nil, elems] (a nil slice and an empty one differ), a struct a record   *)
(* of its fields. A Go type is a descriptor; the field descriptors carry   *)
(* the `omitempty` option of the struct tags in internal/model/types.go.   *)
(***************************************************************************)

NilSlice    == [nil |-> TRUE, elems |-> <<>>]
Slice(s)    == [nil |-> FALSE, elems |-> s]
EmptySlice  == Slice(<<>>)

TString     == [k |-> "string"]
TInt        == [k |-> "int"]
TSlice(e)   == [k |-> "slice", elem |-> e]
TStruct(fs) == [k |-> "struct", fields |-> fs]
Field(n, t, o) == [name |-> n, typ |-> t, omitempty |-> o]

\* model.Subject: its fields are all strings; the model keeps `id` and the
\* one optional field, `episode_info,omitempty`.
TSubject == TStruct(<<Field("id", TString, FALSE),
                      Field("episode_info", TString, TRUE)>>)
\* model.CategoryData
TCategoryData == TStruct(<<Field("name", TString, FALSE),
                           Field("data", TSlice(TSubject), FALSE)>>)
\* model.Photo (its fields are all plain strings; the model keeps `id`)
TPhoto == TStruct(<<Field("id", TString, FALSE)>>)
\* model.Comment: the model keeps `id,omitempty` and `content`.
TComment == TStruct(<<Field("id", TString, TRUE),
                      Field("content", TString, FALSE)>>)
\* model.SubjectDetail: of the fields copied from the abstract the model
\* keeps `id` and the plain slice `types`; the fields the enrichment fills
\* in are all kept.
TSubjectDetail == TStruct(<<Field("id", TString, FALSE),
                            Field("cover", TString, FALSE),
                            Field("types", TSlice(TString), FALSE),
                            Field("photos", TSlice(TPhoto), TRUE),
                            Field("comments", TSlice(TComment), TRUE),
                            Field("recommendations", TSlice(TSubject), TRUE)>>)
\* The value GetCategory caches: struct{Subjects []model.Subject; Total int}
TCategoryPage == TStruct(<<Field("subjects", TSlice(TSubject), FALSE),
                           Field("total", TInt, FALSE)>>)
\* model.HeroMovie: the model keeps `id`, `rate`, the three images and
\* `genres,omitempty`.
THeroMovie == TStruct(<<Field("id", TString, FALSE),
                        Field("rate", TString, FALSE),
                        Field("cover", TString, FALSE),
                        Field("poster_horizontal", TString, FALSE),
                        Field("poster_vertical", TString, FALSE),
                        Field("genres", TSlice(TString), TRUE)>>)
\* model.SuggestItem (the model keeps `id`, `img` and `type`) and
\* model.SearchResult
TSuggestItem == TStruct(<<Field("id", TString, FALSE),
                          Field("img", TString, FALSE),
                          Field("type", TString, FALSE)>>)
TSearchResult == TStruct(<<Field("suggest", TSlice(TSuggestItem), FALSE),
                           Field("advanced", TSlice(TSubject), FALSE)>>)

\* The destination types the handlers pass to Cache.Get, by name.
TypeOf(name) ==
    CASE name = "categories" -> TSlice(TCategoryData)
      [] name = "detail"     -> TSubjectDetail
      [] name = "page"       -> TCategoryPage
      [] name = "hero"       -> TSlice(THeroMovie)
      [] name = "search"     -> TSearchResult
      [] name = "tags"       -> TSlice(TString)

FieldNames(T) == {T.fields[i].name : i \in 1 .. Len(T.fields)}
FieldOf(T, n) == CHOOSE f \in {T.fields[i] : i \in 1 .. Len(T.fields)} : f.name = n

\* The zero value of a type (what `var x T` holds).
RECURSIVE Zero(_)
Zero(T) ==
    CASE T.k = "string" -> ""
      [] T.k = "int"    -> 0
      [] T.k = "slice"  -> NilSlice
      [] T.k = "struct" -> [n \in FieldNames(T) |-> Zero(FieldOf(T, n).typ)]

\* encoding/json's "empty value" for omitempty: false, 0, a nil pointer, and
\* any array, slice, map or string of length zero; a struct is never empty.
IsEmptyValue(v, T) ==
    CASE T.k = "string" -> v = ""
      [] T.k = "int"    -> v = 0
      [] T.k = "slice"  -> Len(v.elems) = 0
      [] T.k = "struct" -> FALSE

JNull   == [j |-> "null"]
JStr(x) == [j |-> "str", s |-> x]
JNum(x) == [j |-> "num", n |-> x]
JArr(x) == [j |-> "arr", a |-> x]
JObj(x) == [j |-> "obj", o |-> x]
\* A payload that is not JSON text at all.
Garbage == [j |-> "invalid"]

\* json.Marshal(value)
RECURSIVE Marshal(_, _)
Marshal(v, T) ==
    CASE T.k = "string" -> JStr(v)
      [] T.k = "int"    -> JNum(v)
      [] T.k = "slice"  ->
            IF v.nil THEN JNull
            ELSE JArr([i \in 1 .. Len(v.elems) |-> Marshal(v.elems[i], T.elem)])
      [] T.k = "struct" ->
            JObj([n \in {m \in FieldNames(T) :
                            ~ (FieldOf(T, m).omitempty
                               /\ IsEmptyValue(v[m], FieldOf(T, m).typ))}
                    |-> Marshal(v[n], FieldOf(T, n).typ)])

\* json.Unmarshal(data, dest) into a zero dest: [ok, v]. JSON null leaves the
\* destination as it is; a JSON value of the wrong shape for the destination
\* is an error; an object's missing fields stay zero.
RECURSIVE Unmarshal(_, _)
Unmarshal(j, T) ==
    IF j.j = "invalid" THEN [ok |-> FALSE, v |-> Zero(T)]
    ELSE IF j.j = "null" THEN [ok |-> TRUE, v |-> Zero(T)]
    ELSE CASE T.k = "string" ->
                IF j.j = "str" THEN [ok |-> TRUE, v |-> j.s]
                ELSE [ok |-> FALSE, v |-> Zero(T)]
           [] T.k = "int" ->
                IF j.j = "num" THEN [ok |-> TRUE, v |-> j.n]
                ELSE [ok |-> FALSE, v |-> Zero(T)]
           [] T.k = "slice" ->
                IF j.j = "arr"
                THEN LET es == [i \in 1 .. Len(j.a) |-> Unmarshal(j.a[i], T.elem)]
                     IN  [ok |-> \A i \in 1 .. Len(j.a) : es[i].ok,
                          v  |-> Slice([i \in 1 .. Len(j.a) |-> es[i].v])]
                ELSE [ok |-> FALSE, v |-> Zero(T)]
           [] T.k = "struct" ->
                IF j.j = "obj"
                THEN LET fs == [n \in FieldNames(T) |->
                                  IF n \in DOMAIN j.o
                                  THEN Unmarshal(j.o[n], FieldOf(T, n).typ)
                                  ELSE [ok |-> TRUE, v |-> Zero(FieldOf(T, n).typ)]]
                     IN  [ok |-> \A n \in FieldNames(T) : fs[n].ok,
                          v  |-> [n \in FieldNames(T) |-> fs[n].v]]
                ELSE [ok |-> FALSE, v |-> Zero(T)]

(***************************************************************************)
(* Cache over the external store                                           *)
(*                                                                         *)
(* A key is the sequence of the pieces it is built from, so that a glob    *)
(* can be matched against it: "douban:detail:1" is                         *)
(* <<"douban", ":", "detail", ":", "1">>. In a pattern, "*" stands for any *)
(* run of pieces and "?" for one piece (the store's KEYS glob, at the      *)
(* grain of pieces).                                                       *)
(***************************************************************************)

Key(domain, rest) == <<"douban", ":", domain, ":", rest>>

moviesCacheKey   == Key("movies", "all")
tvCacheKey       == Key("tv", "all")
latestCacheKey   == Key("latest", "all")
newAllCacheKey   == Key("new", "all")
heroDataCacheKey == Key("hero", "movies")
detailCacheKey(id) == Key("detail", id)

\* The store holds, per key, a payload or nothing.
Absent == [j |-> "absent"]

NoValue == [none |-> TRUE]

\* var ErrCacheMiss = fmt.Errorf("cache miss"); the other errors are built by
\* fmt.Errorf at the place they arise, so none of them is ErrCacheMiss.
ErrCacheMiss  == "cache miss"
ErrRedisGet   == "redis get error"
ErrUnmarshal  == "failed to unmarshal cached value"
ErrRedisSet   == "redis set error"
ErrRedisDel   == "redis del error"
ErrRedisKeys  == "redis keys error"

\* func IsCacheMiss(err error) bool { return err == ErrCacheMiss }
IsCacheMiss(err) == err = ErrCacheMiss

\* The store's glob match of pattern p against key s.
RECURSIVE GlobMatch(_, _)
GlobMatch(p, s) ==
    IF p = <<>> THEN s = <<>>
    ELSE IF Head(p) = "*"
         THEN GlobMatch(Tail(p), s) \/ (s # <<>> /\ GlobMatch(p, Tail(s)))
    ELSE IF Head(p) = "?"
         THEN s # <<>> /\ GlobMatch(Tail(p), Tail(s))
    ELSE s # <<>> /\ Head(s) = Head(p) /\ GlobMatch(Tail(p), Tail(s))

\* c.client.Keys(ctx, pattern): the stored keys that match.
KeysMatching(st, p) == {k \in DOMAIN st : st[k] # Absent /\ GlobMatch(p, k)}

\* Cache.Get(ctx, key, dest), dest a zero value of type T; `up` is whether
\* the store answers this call. Returns [err, val]. The variant folds every
\* outcome into the miss.
GetAllMiss(st, k, T, up) == [err |-> ErrCacheMiss, val |-> NoValue]
Get(st, k, T, up) ==
    IF ~ up THEN [err |-> ErrRedisGet, val |-> NoValue]
    ELSE IF st[k] = Absent THEN [err |-> ErrCacheMiss, val |-> NoValue]
    ELSE LET u == Unmarshal(st[k], T)
         IN  IF u.ok THEN [err |-> "nil", val |-> u.v]
             ELSE [err |-> ErrUnmarshal, val |-> NoValue]

\* Cache.Set(ctx, key, value): [err, store]. The values cached here always
\* marshal, so the marshal-error return is never taken.
Set(st, k, T, v, up) ==
    IF ~ up THEN [err |-> ErrRedisSet, store |-> st]
    ELSE [err |-> "nil", store |-> [st EXCEPT ![k] = Marshal(v, T)]]

\* Cache.Delete(ctx, key): [err, store]
Delete(st, k, up) ==
    IF ~ up THEN [err |-> ErrRedisDel, store |-> st]
    ELSE [err |-> "nil", store |-> [st EXCEPT ![k] = Absent]]

\* Cache.DeletePattern(ctx, pattern): [n, err, store]. `upKeys` and `upDel`
\* are whether the store answers the KEYS call and the DEL call. The count
\* returned is the one DEL reports; no other client of the store acts between
\* the two calls here, so it is the number of keys KEYS listed. The variant
\* ignores the pattern and empties the store.
DeletePatternAll(st, p, upKeys, upDel) ==
    [n |-> Cardinality({k \in DOMAIN st : st[k] # Absent}), err |-> "nil",
     store |-> [k \in DOMAIN st |-> Absent]]
DeletePattern(st, p, upKeys, upDel) ==
    IF ~ upKeys THEN [n |-> 0, err |-> ErrRedisKeys, store |-> st]
    ELSE LET keys == KeysMatching(st, p)
         IN  IF keys = {} THEN [n |-> 0, err |-> "nil", store |-> st]
             ELSE IF ~ upDel THEN [n |-> 0, err |-> ErrRedisDel, store |-> st]
             ELSE [n |-> Cardinality(keys), err |-> "nil",
                   store |-> [k \in DOMAIN st |-> IF k \in keys THEN Absent ELSE st[k]]]

\* ---- the Cache calls as steps over the store ----

\* The keys, destination types, values and patterns the calls are made with.
CacheKeys == {detailCacheKey("1"), detailCacheKey("2"), moviesCacheKey}

Subject1 == [id |-> "s1", episode_info |-> ""]
Photo1   == [id |-> "p1"]

DetailValues ==
    {[id |-> "1", cover |-> "", types |-> Slice(<<"drama">>), photos |-> ph,
      comments |-> NilSlice, recommendations |-> NilSlice] :
        ph \in {NilSlice, EmptySlice, Slice(<<Photo1>>)}}
CategoriesValues ==
    {Slice(<<[name |-> "hot", data |-> d]>>) : d \in {EmptySlice, Slice(<<Subject1>>)}}

\* A value with the name of its Go type.
TypedValues ==
    {[typ |-> "detail", val |-> v] : v \in DetailValues}
    \cup {[typ |-> "categories", val |-> v] : v \in CategoriesValues}

DestTypes == {"detail", "categories"}

\* The type of the values the handlers keep under a key: a detail under a
\* detail key, the category list under the movies key.
KeyType(k) == IF k = moviesCacheKey THEN "categories" ELSE "detail"

Patterns ==
    {Key("detail", "*"), Key("category", "*"), Key("*", "all"),
     <<"douban", ":", "*">>, Key("detail", "?")}

NoOp == [op |-> "none", key |-> <<>>, typ |-> "none", up |-> TRUE,
         err |-> "nil", val |-> NoValue, n |-> 0]

Unwritten == [st |-> "none", typ |-> "none", val |-> NoValue]

\* The store with nothing under any of the keys ks, and no call made yet.
CacheEmpty(ks) ==
    /\ store = [k \in ks |-> Absent]
    /\ lastOp = NoOp
    /\ written = [k \in ks |-> Unwritten]

CacheInit == CacheEmpty(CacheKeys)

CacheGet(k, t, up) ==
    LET r == Get(store, k, TypeOf(t), up)
    IN  /\ lastOp' = [op |-> "get", key |-> k, typ |-> t, up |-> up,
                      err |-> r.err, val |-> r.val, n |-> 0]
        /\ UNCHANGED <<store, written>>

CacheSet(k, tv, up) ==
    LET r == Set(store, k, TypeOf(tv.typ), tv.val, up)
    IN  /\ store' = r.store
        /\ lastOp' = [op |-> "set", key |-> k, typ |-> tv.typ, up |-> up,
                      err |-> r.err, val |-> tv.val, n |-> 0]
        /\ written' = IF r.err = "nil"
                      THEN [written EXCEPT ![k] =
                               [st |-> "set", typ |-> tv.typ, val |-> tv.val]]
                      ELSE written

CacheDelete(k, up) ==
    LET r == Delete(store, k, up)
    IN  /\ store' = r.store
        /\ lastOp' = [op |-> "delete", key |-> k, typ |-> "none", up |-> up,
                      err |-> r.err, val |-> NoValue, n |-> 0]
        /\ written' = IF r.err = "nil"
                      THEN [written EXCEPT ![k] =
                               [st |-> "deleted", typ |-> "none", val |-> NoValue]]
                      ELSE written

CacheDeletePattern(p, upKeys, upDel) ==
    LET r == DeletePattern(store, p, upKeys, upDel)
    IN  /\ store' = r.store
        /\ lastOp' = [op |-> "delpattern", key |-> p, typ |-> "none",
                      up |-> upKeys /\ upDel, err |-> r.err, val |-> NoValue,
                      n |-> r.n]
        /\ written' = [k \in DOMAIN store |->
                         IF store[k] # r.store[k] THEN Unwritten ELSE written[k]]

\* The store drops an entry whose TTL has run out.
StoreExpire(k) ==
    /\ store[k] # Absent
    /\ store' = [store EXCEPT ![k] = Absent]
    /\ lastOp' = NoOp
    /\ written' = [written EXCEPT ![k] = Unwritten]

\* Something other than Cache.Set puts a payload under the key that is not
\* the JSON of any value (the store is shared and outlives the process).
StoreForeignWrite(k) ==
    /\ store[k] # Garbage
    /\ store' = [store EXCEPT ![k] = Garbage]
    /\ lastOp' = NoOp
    /\ written' = [written EXCEPT ![k] = Unwritten]

CacheFrame ==
    UNCHANGED <<fetchVars, keyVars, handlerVars, invVars, enrichVars, heroVars, metricVars, trendVars, matchVars, routeVars, backdropVars, keyOfVars, ttlVars, pageVars, authVars, uptimeVars, concVars>>

NextCache ==
    \/ \E k \in CacheKeys, t \in DestTypes, up \in BOOLEAN :
          CacheGet(k, t, up) /\ CacheFrame
    \/ \E k \in CacheKeys, tv \in TypedValues, up \in BOOLEAN :
          tv.typ = KeyType(k) /\ CacheSet(k, tv, up) /\ CacheFrame
    \/ \E k \in CacheKeys, up \in BOOLEAN : CacheDelete(k, up) /\ CacheFrame
    \/ \E p \in Patterns, upKeys \in BOOLEAN, upDel \in BOOLEAN :
          CacheDeletePattern(p, upKeys, upDel) /\ CacheFrame
    \/ \E k \in CacheKeys : StoreExpire(k) /\ CacheFrame
    \/ \E k \in CacheKeys : StoreForeignWrite(k) /\ CacheFrame

(***************************************************************************)
(* The data handlers' cache-aside read path                                *)
(*                                                                         *)
(* Handlers of different data sets share no cache key, so a behaviour      *)
(* follows the requests made to one handler, one request at a time.        *)
(***************************************************************************)

\* How many of a handler's configured categories the fan-out runs in the
\* model (the lists have 8, 8, 6 and 9 entries).
MaxFan == 3

FanOutHandlers == {"movies", "tv", "latest", "new"}
SingleHandlers == {"newFiltered", "hero", "category", "detail", "search", "tags"}
Handlers       == FanOutHandlers \cup SingleHandlers

Cat(n, ty, tg) == [name |-> n, typ |-> ty, tag |-> tg]

\* The `categories` literal of each fan-out handler (names and tags given in
\* English for the Chinese strings of the source, in the source's order).
Categories(h) ==
    CASE h = "movies" ->
            <<Cat("hot movies", "movie", "hot"), Cat("top rated", "movie", "top rated"),
              Cat("action", "movie", "action"), Cat("comedy", "movie", "comedy"),
              Cat("sci-fi", "movie", "sci-fi"), Cat("thriller", "movie", "thriller"),
              Cat("romance", "movie", "romance"), Cat("animated film", "movie", "animation")>>
      [] h = "tv" ->
            <<Cat("hot series", "tv", "hot"), Cat("chinese tv", "tv", "chinese tv"),
              Cat("us tv", "tv", "us tv"), Cat("jp tv", "tv", "jp tv"),
              Cat("kr tv", "tv", "kr tv"), Cat("uk tv", "tv", "uk tv"),
              Cat("variety shows", "tv", "variety"), Cat("anime", "tv", "anime")>>
      [] h = "latest" ->
            <<Cat("new in theaters", "", "new in theaters"), Cat("latest movies", "", "latest"),
              Cat("coming soon", "", "coming soon"), Cat("new series", "tv", "latest"),
              Cat("weekly best", "", "weekly best"), Cat("trending", "", "hot")>>
      [] h = "new" ->
            <<Cat("now showing", "", "hot"), Cat("hot tv", "tv", "hot"),
              Cat("chinese tv", "tv", "chinese tv"), Cat("variety", "tv", "variety"),
              Cat("us tv", "tv", "us tv"), Cat("jp tv", "tv", "jp tv"),
              Cat("kr tv", "tv", "kr tv"), Cat("anime", "tv", "anime"),
              Cat("documentary", "tv", "documentary")>>

Min(a, b) == IF a < b THEN a ELSE b

\* The sub-tasks a request of handler h spawns: one per category.
SubTasks(h) == SubSeq(Categories(h), 1, Min(MaxFan, Len(Categories(h))))

newFilteredCacheKey(typ, year, region, genre, sort) ==
    <<"douban", ":", "new", ":", typ, ":", year, ":", region, ":", genre, ":", sort>>
categoryCacheKey(category, page, limit) ==
    <<"douban", ":", "category", ":", category, ":", "page", page, ":", "limit", limit>>
searchCacheKey(q, typ, sort, genres, yearRange, start, limit) ==
    <<"douban", ":", "search", ":", q, ":", typ, ":", sort, ":", genres, ":",
      yearRange, ":", start, ":", limit>>
tagsCacheKey(typ) == Key("tags", typ)

\* The cache key and the destination type of the request each handler is
\* followed with.
HandlerKey(h) ==
    CASE h = "movies"      -> moviesCacheKey
      [] h = "tv"          -> tvCacheKey
      [] h = "latest"      -> latestCacheKey
      [] h = "new"         -> newAllCacheKey
      [] h = "newFiltered" -> newFilteredCacheKey("tv", "", "", "", "recommend")
      [] h = "hero"        -> heroDataCacheKey
      [] h = "category"    -> categoryCacheKey("hot_movies", "1", "1")
      [] h = "detail"      -> detailCacheKey("1")
      [] h = "search"      -> searchCacheKey("q", "movie", "U", "", "", "0", "20")
      [] h = "tags"        -> tagsCacheKey("movie")

HandlerType(h) ==
    CASE h \in FanOutHandlers \cup {"newFiltered"} -> "categories"
      [] h = "hero"     -> "hero"
      [] h = "category" -> "page"
      [] h = "detail"   -> "detail"
      [] h = "search"   -> "search"
      [] h = "tags"     -> "tags"

\* What DoubanService.SearchSubjects(typ, tag, 24, 0) can return to a
\* sub-task: an error (Fetch exhausted, or a body that does not parse), or
\* the subjects of the answer, which are nil when the answer holds none.
SubjectOf(tag) == [id |-> tag, episode_info |-> ""]
Pending == [st |-> "pending", subjects |-> NilSlice]
SearchOutcomes(tag) ==
    {[st |-> "err", subjects |-> NilSlice],
     [st |-> "ok", subjects |-> NilSlice],
     [st |-> "ok", subjects |-> Slice(<<SubjectOf(tag)>>)]}

\* The slot a sub-task writes: its own index, passed to the goroutine as idx.
\* The variant has every sub-task write the slot the loop variable stands at
\* once the loop is over.
SlotOfShared(i, n) == n
SlotOf(i, n) == i

\* results[idx] = model.CategoryData{Name: name, Data: ...}
SlotValue(cat, o) ==
    [name |-> cat.name,
     data |-> IF o.st = "err" THEN EmptySlice ELSE o.subjects]

\* `if err := h.cache.Get(...); err == nil` : the handler answers from the
\* cache only then. The variant also answers from the cache when the
\* payload failed to decode.
CacheHitOrUndecodable(err) == err \in {"nil", ErrUnmarshal}
CacheHit(err) == err = "nil"

\* h.cache.Set(...) as a statement: the error it returns is dropped, the
\* response r is written whatever it was.
AfterSet(r, err) == r

\* What the fresh computation of a handler without fan-out can come to: the
\* outcome of its primary upstream fetch and the value it builds.
FreshOutcomes(h) ==
    CASE h = "newFiltered" ->
            \* fetchWithTagSearch: no subjects on error, never a failure
            {[primary |-> "fail", val |-> Slice(<<[name |-> "tv", data |-> EmptySlice]>>)],
             [primary |-> "ok", val |-> Slice(<<[name |-> "tv", data |-> Slice(<<SubjectOf("hot")>>)]>>)]}
      [] h = "hero" ->
            \* SearchSubjects failing or empty ends the request
            {[primary |-> "fail", val |-> NoValue],
             [primary |-> "empty", val |-> NoValue],
             [primary |-> "ok", val |-> Slice(<<[id |-> "m1", rate |-> "9.1", cover |-> <<"c1">>,
                                               poster_horizontal |-> <<"c1">>,
                                               poster_vertical |-> <<"c1">>,
                                               genres |-> NilSlice]>>)],
             [primary |-> "ok", val |-> Slice(<<[id |-> "m1", rate |-> "9.1", cover |-> <<"c1">>,
                                               poster_horizontal |-> <<"b1">>,
                                               poster_vertical |-> <<"c1">>,
                                               genres |-> Slice(<<"drama">>)]>>)]}
      [] h = "category" ->
            {[primary |-> "fail", val |-> NoValue],
             [primary |-> "ok", val |-> [subjects |-> NilSlice, total |-> 0]],
             [primary |-> "ok", val |-> [subjects |-> Slice(<<SubjectOf("hot")>>), total |-> 100]]}
      [] h = "detail" ->
            \* GetSubjectAbstract failing, or answering without a subject
            {[primary |-> "fail", val |-> NoValue],
             [primary |-> "empty", val |-> NoValue]}
            \cup {[primary |-> "ok", val |-> v] : v \in DetailValues}
      [] h = "search" ->
            {[primary |-> "ok", val |-> [suggest |-> sg, advanced |-> NilSlice]] :
                sg \in {EmptySlice, Slice(<<[id |-> "1", img |-> "i1", type |-> "movie"]>>)}}
      [] h = "tags" ->
            {[primary |-> "fail", val |-> EmptySlice],
             [primary |-> "ok", val |-> Slice(<<"drama">>)]}

\* The status the handler answers with once the fresh computation came to o.
FreshCode(h, o) ==
    CASE h = "hero" /\ o.primary \in {"fail", "empty"}   -> 500
      [] h = "category" /\ o.primary = "fail"            -> 500
      [] h = "detail" /\ o.primary \in {"fail", "empty"} -> 404
      [] OTHER -> 200

\* Whether the handler writes the fresh value back: GetNew with filters
\* returns before its cache.Set; GetHero writes a non-empty list only (and
\* its list is never empty once SearchSubjects gave subjects).
WritesBack(h, o) == h # "newFiltered" /\ FreshCode(h, o) = 200

\* The "source" a handler labels a freshly computed response with.
FreshSource(h) ==
    IF h \in {"category", "new", "newFiltered"} THEN "fresh-data" ELSE "fresh"

NoResp == [code |-> 0, source |-> "none", data |-> NoValue]

\* c.Set("cache_source", "redis-cache") on the branch that answers from the
\* cache; the key is not set on any other branch. The variant never sets it.
MarkCacheSourceNever(hit) == ""
MarkCacheSource(hit) == IF hit THEN "redis-cache" ELSE ""
NoOutcome == [primary |-> "none", val |-> NoValue]

HandlerIdle ==
    /\ reqPc = "idle"
    /\ reqLookup = "none"
    /\ results = <<>>
    /\ taskOutcome = <<>>
    /\ primary = NoOutcome
    /\ setErr = FALSE
    /\ resp = NoResp
    /\ cache_source = ""
    /\ recorded = FALSE

HandlerInit ==
    /\ reqHandler \in Handlers
    /\ HandlerIdle

\* The handler is entered and looks its key up; on a hit it answers.
HandleRequest(up) ==
    /\ reqPc \in {"idle", "responded"}
    /\ CacheGet(HandlerKey(reqHandler), HandlerType(reqHandler), up)
    /\ reqLookup' = lastOp'.err
    /\ results' = <<>>
    /\ taskOutcome' = <<>>
    /\ primary' = NoOutcome
    /\ setErr' = FALSE
    /\ IF CacheHit(lastOp'.err)
       THEN /\ resp' = [code |-> 200, source |-> "redis-cache", data |-> lastOp'.val]
            /\ reqPc' = "responded"
       ELSE /\ resp' = NoResp
            /\ reqPc' = "fresh"
    /\ cache_source' = MarkCacheSource(CacheHit(lastOp'.err))
    /\ recorded' = FALSE
    /\ UNCHANGED reqHandler

\* results := make([]model.CategoryData, len(categories)); one goroutine per
\* category is started.
SpawnTasks ==
    /\ reqPc = "fresh"
    /\ reqHandler \in FanOutHandlers
    /\ results' = [i \in 1 .. Len(SubTasks(reqHandler)) |-> Zero(TCategoryData)]
    /\ taskOutcome' = [i \in 1 .. Len(SubTasks(reqHandler)) |-> Pending]
    /\ reqPc' = "wait"
    /\ UNCHANGED <<reqHandler, reqLookup, primary, setErr, resp, cache_source,
                   recorded, cacheVars>>

\* Sub-task i finishes: its SearchSubjects returned o and it fills its slot.
TaskDone(i, o) ==
    /\ reqPc = "wait"
    /\ taskOutcome[i] = Pending
    /\ taskOutcome' = [taskOutcome EXCEPT ![i] = o]
    /\ results' = [results EXCEPT
                      ![SlotOf(i, Len(results))] = SlotValue(SubTasks(reqHandler)[i], o)]
    /\ UNCHANGED <<reqPc, reqHandler, reqLookup, primary, setErr, resp,
                   cache_source, recorded, cacheVars>>

\* wg.Wait() returns; the results are written back and answered.
FanOutRespond(up) ==
    /\ reqPc = "wait"
    /\ \A i \in 1 .. Len(taskOutcome) : taskOutcome[i] # Pending
    /\ CacheSet(HandlerKey(reqHandler),
                [typ |-> HandlerType(reqHandler), val |-> Slice(results)], up)
    /\ setErr' = (lastOp'.err # "nil")
    /\ resp' = AfterSet([code |-> 200, source |-> FreshSource(reqHandler),
                         data |-> Slice(results)], lastOp'.err)
    /\ reqPc' = "responded"
    /\ UNCHANGED <<reqHandler, reqLookup, results, taskOutcome, primary,
                   cache_source, recorded>>

\* A handler without fan-out computes fresh, writes back and answers.
SingleRespond(up) ==
    /\ reqPc = "fresh"
    /\ reqHandler \in SingleHandlers
    /\ \E o \in FreshOutcomes(reqHandler) :
       /\ primary' = o
       /\ IF WritesBack(reqHandler, o)
          THEN /\ CacheSet(HandlerKey(reqHandler),
                           [typ |-> HandlerType(reqHandler), val |-> o.val], up)
               /\ setErr' = (lastOp'.err # "nil")
               /\ resp' = AfterSet([code |-> FreshCode(reqHandler, o),
                                    source |-> FreshSource(reqHandler),
                                    data |-> o.val], lastOp'.err)
          ELSE /\ setErr' = FALSE
               /\ resp' = [code |-> FreshCode(reqHandler, o),
                           source |-> FreshSource(reqHandler), data |-> o.val]
               /\ UNCHANGED cacheVars
    /\ reqPc' = "responded"
    /\ UNCHANGED <<reqHandler, reqLookup, results, taskOutcome, cache_source,
                   recorded>>

HandlerFrame ==
    UNCHANGED <<fetchVars, keyVars, invVars, enrichVars, heroVars, metricVars, trendVars, matchVars, routeVars, backdropVars, keyOfVars, ttlVars, pageVars, authVars, uptimeVars, concVars>>

NextHandler ==
    \/ \E up \in BOOLEAN : HandleRequest(up) /\ HandlerFrame
    \/ SpawnTasks /\ HandlerFrame
    \/ \E i \in 1 .. Len(taskOutcome) :
          \E o \in SearchOutcomes(SubTasks(reqHandler)[i].tag) :
             TaskDone(i, o) /\ HandlerFrame
    \/ \E up \in BOOLEAN : FanOutRespond(up) /\ HandlerFrame
    \/ \E up \in BOOLEAN : SingleRespond(up) /\ HandlerFrame
    \/ \E k \in DOMAIN store :
          StoreExpire(k) /\ UNCHANGED handlerVars /\ HandlerFrame
    \/ \E k \in DOMAIN store :
          StoreForeignWrite(k) /\ UNCHANGED handlerVars /\ HandlerFrame

(***************************************************************************)
(* The cache invalidation handlers (the DELETE routes)                     *)
(***************************************************************************)

\* The handlers that delete one key, and the key each deletes. DeleteTVCache,
\* DeleteLatestCache and DeleteNewCache are DeleteMoviesCache with another
\* key; the model follows DeleteMoviesCache for the four.
KeyInvalidators == {"movies", "hero", "detail1", "detail2"}
InvalidatedKey(h) ==
    CASE h = "movies"  -> moviesCacheKey
      [] h = "hero"    -> heroDataCacheKey
      [] h = "detail1" -> detailCacheKey("1")
      [] h = "detail2" -> detailCacheKey("2")

\* The handlers that delete by one pattern and answer with DeletePattern's
\* error, and the pattern each deletes.
PatternInvalidators == {"category", "allDetail"}
InvalidatedPattern(h) ==
    CASE h = "category"  -> Key("category", "*")
      [] h = "allDetail" -> Key("detail", "*")

\* The keys the store holds while the invalidation handlers are followed.
InvKeys ==
    {InvalidatedKey(h) : h \in KeyInvalidators}
    \cup {categoryCacheKey("hot_movies", "1", "1"),
          searchCacheKey("q", "movie", "U", "", "", "0", "20"),
          tagsCacheKey("movie")}

NoInvResp == [handler |-> "none", code |-> 0, deleted |-> 0]

InvIdle == invResp = NoInvResp

\* DeleteMoviesCache, DeleteTVCache, DeleteLatestCache, DeleteNewCache,
\* DeleteHeroCache, DeleteDetailCache: h.cache.Delete(ctx, key) as a
\* statement, then 200.
InvalidateKey(h, up) ==
    /\ CacheDelete(InvalidatedKey(h), up)
    /\ invResp' = [handler |-> h, code |-> 200, deleted |-> 0]

\* DeleteCategoryCache, DeleteAllDetailCache: 500 with the error when
\* DeletePattern returns one, else 200 with the count.
InvalidatePattern(h, upKeys, upDel) ==
    /\ CacheDeletePattern(InvalidatedPattern(h), upKeys, upDel)
    /\ invResp' = IF lastOp'.err # "nil"
                  THEN [handler |-> h, code |-> 500, deleted |-> 0]
                  ELSE [handler |-> h, code |-> 200, deleted |-> lastOp'.n]

\* DeleteSearchCache: two DeletePattern calls, both errors dropped, then 200
\* with the sum of the two counts.
InvalidateSearch(upKeys1, upDel1, upKeys2, upDel2) ==
    LET r1 == DeletePattern(store, Key("search", "*"), upKeys1, upDel1)
        r2 == DeletePattern(r1.store, Key("tags", "*"), upKeys2, upDel2)
    IN  /\ store' = r2.store
        /\ lastOp' = [op |-> "delpattern", key |-> Key("tags", "*"), typ |-> "none",
                      up |-> upKeys2 /\ upDel2, err |-> r2.err, val |-> NoValue,
                      n |-> r2.n]
        /\ written' = [k \in DOMAIN store |->
                         IF store[k] # r2.store[k] THEN Unwritten ELSE written[k]]
        /\ invResp' = [handler |-> "search", code |-> 200, deleted |-> r1.n + r2.n]

\* The read paths fill the keys again (a payload is put under every key
\* that holds none).
StoreRefill ==
    /\ \E k \in DOMAIN store : store[k] = Absent
    /\ store' = [k \in DOMAIN store |-> JNull]
    /\ lastOp' = NoOp
    /\ written' = [k \in DOMAIN store |-> Unwritten]
    /\ UNCHANGED invResp

InvFrame ==
    UNCHANGED <<fetchVars, keyVars, handlerVars, enrichVars, heroVars, metricVars, trendVars, matchVars, routeVars, backdropVars, keyOfVars, ttlVars, pageVars, authVars, uptimeVars, concVars>>

NextInvalidate ==
    \/ \E h \in KeyInvalidators, up \in BOOLEAN : InvalidateKey(h, up) /\ InvFrame
    \/ \E h \in PatternInvalidators, upKeys \in BOOLEAN, upDel \in BOOLEAN :
          InvalidatePattern(h, upKeys, upDel) /\ InvFrame
    \/ \E upKeys1 \in BOOLEAN, upDel1 \in BOOLEAN, upKeys2 \in BOOLEAN, upDel2 \in BOOLEAN :
          InvalidateSearch(upKeys1, upDel1, upKeys2, upDel2) /\ InvFrame
    \/ StoreRefill /\ InvFrame

(***************************************************************************)
(* The concurrent enrichment of GetDetail and of Search                    *)
(*                                                                         *)
(* After the abstract is obtained GetDetail starts four goroutines, each   *)
(* assigning one local variable (cover, photos, comments,                  *)
(* recommendations); Search starts two (suggestResult, advancedResult).    *)
(* The handler waits for all of them, builds the value, writes it back and *)
(* answers. One request shape is followed per behaviour.                   *)
(***************************************************************************)

EnrichRequests ==
    {[handler |-> "detail", id |-> "1", typ |-> ""],
     [handler |-> "search", id |-> "q", typ |-> ""],
     [handler |-> "search", id |-> "q", typ |-> "movie"]}

EnrichTasks(h) ==
    IF h = "detail" THEN {"cover", "photos", "comments", "recommendations"}
    ELSE {"suggestResult", "advancedResult"}

EnrichKey(r) ==
    IF r.handler = "detail" THEN detailCacheKey(r.id)
    ELSE searchCacheKey(r.id, r.typ, "U", "", "", "0", "20")

EnrichType(r) == IF r.handler = "detail" THEN "detail" ELSE "search"

\* recommendations[:6]
MaxRecommendations == 6

\* A title is the sequence of its blank-separated parts; "(2020)" is a year
\* in parentheses. cleanTitleForSearch drops the years and keeps the first
\* part left, if any (the removal of control characters is left out).
Titles == {<<>>, <<"(2020)">>, <<"t", "(2020)">>}
cleanTitleForSearch(title) ==
    LET parts == SelectSeq(title, LAMBDA w : w # "(2020)")
    IN  IF Len(parts) > 0 THEN parts[1] ELSE ""

\* What GetSubjectAbstract(id) can come to: an error, an answer without a
\* subject, or a subject.
NoSubject == [id |-> "", title |-> <<>>, types |-> NilSlice]
AbstractOutcomes(id) ==
    {[err |-> TRUE, subject |-> NoSubject], [err |-> FALSE, subject |-> NoSubject]}
    \cup {[err |-> FALSE,
           subject |-> [id |-> id, title |-> t, types |-> Slice(<<"drama">>)]] :
            t \in Titles}

SuggestItem(id, typ) == [id |-> id, img |-> IF id = "1" THEN "i1" ELSE "i9", type |-> typ]
Comment1 == [id |-> "c1", content |-> "fine"]

\* What the service call of a task can return: `ok` is whether its upstream
\* fetch and parse succeeded, `ret` the slice returned. GetSubjectSuggest,
\* GetPhotos, GetComments and GetRecommendations return an empty slice and
\* no error on failure; AdvancedSearch returns nil and an error.
Called(ok, ret) == [st |-> "done", ok |-> ok, ret |-> ret]
TaskOutcomes(t) ==
    CASE t \in {"cover", "suggestResult"} ->
            {Called(FALSE, EmptySlice), Called(TRUE, NilSlice),
             Called(TRUE, Slice(<<SuggestItem("9", "tv")>>)),
             Called(TRUE, Slice(<<SuggestItem("9", "tv"), SuggestItem("1", "movie")>>))}
      [] t = "photos" ->
            {Called(FALSE, EmptySlice), Called(TRUE, EmptySlice),
             Called(TRUE, Slice(<<Photo1>>))}
      [] t = "comments" ->
            {Called(FALSE, EmptySlice), Called(TRUE, Slice(<<Comment1>>))}
      [] t = "recommendations" ->
            {Called(FALSE, EmptySlice), Called(TRUE, Slice(<<SubjectOf("r1")>>)),
             Called(TRUE, Slice([i \in 1 .. MaxRecommendations + 1 |->
                                    SubjectOf(<<"r1", "r2", "r3", "r4", "r5", "r6", "r7">>[i])]))}
      [] t = "advancedResult" ->
            {Called(FALSE, NilSlice), Called(TRUE, NilSlice),
             Called(TRUE, Slice(<<SubjectOf("a1")>>))}

\* A goroutine that makes no service call, and one still running.
NotCalled == [st |-> "skipped", ok |-> TRUE, ret |-> NilSlice]
Running   == [st |-> "running", ok |-> TRUE, ret |-> NilSlice]

\* Whether the goroutine of task t makes its service call.
Calls(r, t, query) ==
    CASE t = "cover"          -> query # ""
      [] t = "advancedResult" -> r.typ # ""
      [] OTHER                -> TRUE

\* The value the goroutine of task t leaves in its variable, which held
\* `old`, once its call returned o.
TaskResult(r, t, o, old) ==
    IF o.st = "skipped" THEN old
    ELSE CASE t = "cover" ->
                LET hits == SelectSeq(o.ret.elems, LAMBDA s : s.id = r.id)
                IN  IF Len(hits) > 0 THEN hits[1].img ELSE old
           [] t = "recommendations" ->
                IF Len(o.ret.elems) > MaxRecommendations
                THEN Slice(SubSeq(o.ret.elems, 1, MaxRecommendations))
                ELSE o.ret
           [] t = "suggestResult" ->
                IF r.typ # ""
                THEN LET filtered == SelectSeq(o.ret.elems, LAMBDA s : s.type = r.typ)
                     IN  IF Len(filtered) = 0 THEN NilSlice ELSE Slice(filtered)
                ELSE o.ret
           [] OTHER -> o.ret

\* The variable a goroutine assigns: its own. The variant has the comments
\* goroutine assign the recommendations.
TargetOfShared(t) == IF t = "comments" THEN "recommendations" ELSE t
TargetOf(t) == t

\* `var cover string`, `var photos []model.Photo`, ...
ZeroLocal(t) == IF t = "cover" THEN "" ELSE NilSlice
ZeroLocals(h) == [t \in EnrichTasks(h) |-> ZeroLocal(t)]

\* The value the handler builds after wg.Wait().
EnrichData(r, subject, ls) ==
    IF r.handler = "detail"
    THEN [id |-> subject.id, cover |-> ls["cover"], types |-> subject.types,
          photos |-> ls["photos"], comments |-> ls["comments"],
          recommendations |-> ls["recommendations"]]
    ELSE [suggest |-> ls["suggestResult"], advanced |-> ls["advancedResult"]]

EnrichIdle ==
    /\ enPc = "idle"
    /\ detail = NoSubject
    /\ searchQuery = ""
    /\ locals = ZeroLocals(enReq.handler)
    /\ enDone = [t \in EnrichTasks(enReq.handler) |-> Running]
    /\ enResp = NoResp

EnrichInit ==
    /\ enReq \in EnrichRequests
    /\ EnrichIdle

\* The handler is entered: it looks its key up and answers on a hit;
\* GetDetail then gets the abstract and answers 404 without one; the
\* goroutines are started.
EnrichRequest(up, abs) ==
    /\ enPc \in {"idle", "responded"}
    /\ CacheGet(EnrichKey(enReq), EnrichType(enReq), up)
    /\ locals' = ZeroLocals(enReq.handler)
    /\ enDone' = [t \in EnrichTasks(enReq.handler) |-> Running]
    /\ IF CacheHit(lastOp'.err)
       THEN /\ enResp' = [code |-> 200, source |-> "redis-cache", data |-> lastOp'.val]
            /\ enPc' = "responded"
            /\ detail' = NoSubject
            /\ searchQuery' = ""
       ELSE IF enReq.handler = "detail" /\ (abs.err \/ abs.subject = NoSubject)
       THEN /\ enResp' = [code |-> 404, source |-> "none", data |-> NoValue]
            /\ enPc' = "responded"
            /\ detail' = NoSubject
            /\ searchQuery' = ""
       ELSE /\ enResp' = NoResp
            /\ enPc' = "wait"
            /\ detail' = IF enReq.handler = "detail" THEN abs.subject ELSE NoSubject
            /\ searchQuery' = IF enReq.handler = "detail"
                              THEN cleanTitleForSearch(abs.subject.title) ELSE ""
    /\ UNCHANGED enReq

\* The goroutine of task t finishes, its service call (if it made one)
\* having returned o.
EnrichTaskDone(t, o) ==
    /\ enPc = "wait"
    /\ enDone[t] = Running
    /\ IF Calls(enReq, t, searchQuery) THEN o \in TaskOutcomes(t) ELSE o = NotCalled
    /\ enDone' = [enDone EXCEPT ![t] = o]
    /\ locals' = [locals EXCEPT
                    ![TargetOf(t)] = TaskResult(enReq, t, o, locals[TargetOf(t)])]
    /\ UNCHANGED <<enPc, enReq, detail, searchQuery, enResp, cacheVars>>

\* wg.Wait() returns; the value is built, written back and answered.
EnrichRespond(up) ==
    /\ enPc = "wait"
    /\ \A t \in EnrichTasks(enReq.handler) : enDone[t] # Running
    /\ LET data == EnrichData(enReq, detail, locals)
       IN  /\ CacheSet(EnrichKey(enReq), [typ |-> EnrichType(enReq), val |-> data], up)
           /\ enResp' = AfterSet([code |-> 200, source |-> "fresh", data |-> data],
                                 lastOp'.err)
    /\ enPc' = "responded"
    /\ UNCHANGED <<enReq, detail, searchQuery, locals, enDone>>

EnrichFrame ==
    UNCHANGED <<fetchVars, keyVars, handlerVars, invVars, heroVars, metricVars, trendVars, matchVars, routeVars, backdropVars, keyOfVars, ttlVars, pageVars, authVars, uptimeVars, concVars>>

NextEnrich ==
    \/ \E up \in BOOLEAN : \E abs \in AbstractOutcomes(enReq.id) :
          EnrichRequest(up, abs) /\ EnrichFrame
    \/ \E t \in EnrichTasks(enReq.handler) :
          \E o \in TaskOutcomes(t) \cup {NotCalled} :
             EnrichTaskDone(t, o) /\ EnrichFrame
    \/ \E up \in BOOLEAN : EnrichRespond(up) /\ EnrichFrame
    \/ \E k \in DOMAIN store :
          StoreExpire(k) /\ UNCHANGED enrichVars /\ EnrichFrame

(***************************************************************************)
(* HeroHandler.GetHero                                                     *)
(*                                                                         *)
(* The handler sorts the subjects by rating, keeps the first maxHeroCount  *)
(* and starts one goroutine (a unit) per subject. A unit starts an inner   *)
(* goroutine for the abstract and waits for it or for its context; then,   *)
(* when TMDB is configured, an inner goroutine for the backdrop, and waits *)
(* for it or for its context; then it builds its entry and sends it, with  *)
(* its index, on a channel with room for every unit. The handler places    *)
(* what it receives by index until the channel is closed. One request is   *)
(* followed per behaviour. A URL is the sequence of its path parts, the    *)
(* empty URL the empty sequence. Of the locals the abstract fills in the   *)
(* model keeps genres (description and releaseYear are assigned with it).  *)
(***************************************************************************)

\* const maxHeroCount = 5
maxHeroCount == 5

HeroSubject(id, rate, cover) == [id |-> id, rate |-> rate, cover |-> cover]
SmallPoster(f) == <<"img", "view", "photo", "s_ratio_poster", "public", f>>
NoURL == <<>>

\* What SearchSubjects("", "热门", 20, 0) answers with in the behaviours that
\* follow the units step by step, and in those that follow them whole.
HeroInputs ==
    {<<HeroSubject("m2", "7.5", <<"img", "other", "p2">>),
       HeroSubject("m1", "9.1", SmallPoster("p1"))>>,
     <<HeroSubject("m3", "", NoURL)>>}
HeroOrderInputs ==
    {<<HeroSubject("m2", "7.5", SmallPoster("p2")),
       HeroSubject("m1", "9.1", SmallPoster("p1")),
       HeroSubject("m3", "", NoURL),
       HeroSubject("m4", "8.0", SmallPoster("p4")),
       HeroSubject("m5", "9.1", SmallPoster("p5")),
       HeroSubject("m6", "6.2", SmallPoster("p6"))>>,
     <<HeroSubject("m2", "7.5", SmallPoster("p2")),
       HeroSubject("m1", "9.1", SmallPoster("p1"))>>}

\* parseFloat(s), in tenths: 0 for the empty string and for what does not
\* parse.
parseFloat(s) ==
    CASE s = "9.1" -> 91
      [] s = "8.0" -> 80
      [] s = "7.5" -> 75
      [] s = "6.2" -> 62
      [] OTHER     -> 0

\* sort.Slice(subjects, rateI > rateJ): some arrangement of the subjects in
\* which no subject precedes one of a higher rating; the order of equally
\* rated subjects is not determined.
SortedByRate(in) ==
    {s \in {[i \in 1 .. Len(in) |-> in[p[i]]] : p \in Permutations(1 .. Len(in))} :
        \A i, j \in 1 .. Len(in) :
            i < j => parseFloat(s[i].rate) >= parseFloat(s[j].rate)}

\* subjects[:maxHeroCount]
TopHero(s) == IF Len(s) > maxHeroCount THEN SubSeq(s, 1, maxHeroCount) ELSE s

getHighQualityPoster(url) ==
    IF url = NoURL THEN url
    ELSE [i \in 1 .. Len(url) |-> IF url[i] = "s_ratio_poster" THEN "l" ELSE url[i]]

\* What SearchMovieBackdrop can return: no URL with an error, no URL when
\* nothing matches, or imageBase + BackdropPath.
BackdropOutcomes ==
    {[kind |-> "error", url |-> NoURL], [kind |-> "nomatch", url |-> NoURL],
     [kind |-> "found", url |-> <<"tmdb", "original", "b.jpg">>]}

\* posterHorizontal := backdropURL, with the cover when that is empty. The
\* variant has no fallback.
posterHorizontalNoFallback(backdropURL, cover) == backdropURL
posterHorizontal(backdropURL, cover) ==
    IF backdropURL = NoURL THEN cover ELSE backdropURL

\* hero := &model.HeroMovie{...}
Hero(m, genres, backdropURL) ==
    LET cover == getHighQualityPoster(m.cover)
    IN  [id |-> m.id, rate |-> m.rate, cover |-> cover,
         poster_horizontal |-> posterHorizontal(backdropURL, cover),
         poster_vertical |-> cover, genres |-> genres]

NilHero == [nil |-> TRUE]

\* A unit as it is started: its first inner goroutine running, its locals
\* zero. sawDetail: whether it received from detailDone; tmdbOut, atBuild:
\* what its backdrop lookup came to, and where that lookup stood when the
\* entry was built.
UnitStart ==
    [pc |-> "detail", detailInner |-> "running", tmdbInner |-> "none",
     genres |-> NilSlice, backdropURL |-> NoURL, expired |-> FALSE,
     sawDetail |-> FALSE, tmdbOut |-> "unrun", atBuild |-> "none"]

\* movieCtx.Done() is closed once the unit's own timer fired or the request's
\* context, which it derives from, is done.
CtxDone(i) == units[i].expired \/ reqExpired

\* The `case <-movieCtx.Done()` of the unit's selects. The variant is a
\* select without it.
SelectNeverTimesOut(i) == FALSE
SelectTimesOut(i) == CtxDone(i)

\* What a unit reads from a variable an inner goroutine assigns: the value
\* there if it received from the goroutine's done channel; otherwise the
\* read is not ordered with the assignment and gives the zero value or the
\* value there.
ReadLocal(saw, zero, now) == IF saw THEN {now} ELSE {zero, now}

\* results[result.index] = result.hero (indices from 1 here). The variant
\* places in order of arrival.
ResultSlotArrival(r, rs) == 1 + Cardinality({j \in 1 .. Len(rs) : rs[j] # NilHero})
ResultSlot(r, rs) == r.index

HeroIdle ==
    /\ heroPc = "idle"
    /\ subjects = <<>>
    /\ units = <<>>
    /\ reqExpired = FALSE
    /\ resultChan = <<>>
    /\ chanClosed = FALSE
    /\ heroResults = <<>>
    /\ heroResp = NoResp

\* The handler is entered: cache lookup, SearchSubjects, sort, truncation,
\* and the units are started.
HeroRequest(up, ok) ==
    /\ heroPc = "idle"
    /\ CacheGet(heroDataCacheKey, "hero", up)
    /\ IF CacheHit(lastOp'.err)
       THEN /\ heroResp' = [code |-> 200, source |-> "redis-cache", data |-> lastOp'.val]
            /\ heroPc' = "responded"
            /\ UNCHANGED <<subjects, units, heroResults>>
       ELSE IF ~ ok \/ Len(heroInput) = 0
       THEN /\ heroResp' = [code |-> 500, source |-> "none", data |-> NoValue]
            /\ heroPc' = "responded"
            /\ UNCHANGED <<subjects, units, heroResults>>
       ELSE /\ \E s \in SortedByRate(heroInput) : subjects' = TopHero(s)
            /\ units' = [i \in 1 .. Len(subjects') |-> UnitStart]
            /\ heroResults' = [i \in 1 .. Len(subjects') |-> NilHero]
            /\ heroResp' = NoResp
            /\ heroPc' = "units"
    /\ UNCHANGED <<heroInput, reqExpired, resultChan, chanClosed, keyVars>>

\* The per-movie timer of unit i fires; the request's timer fires.
MovieDeadline(i) ==
    /\ heroPc = "units"
    /\ units[i].pc # "sent"
    /\ ~ units[i].expired
    /\ units' = [units EXCEPT ![i].expired = TRUE]
    /\ UNCHANGED <<heroPc, heroInput, subjects, reqExpired, resultChan, chanClosed,
                   heroResults, heroResp, cacheVars, keyVars>>

RequestDeadline ==
    /\ heroPc = "units"
    /\ ~ reqExpired
    /\ reqExpired' = TRUE
    /\ UNCHANGED <<heroPc, heroInput, subjects, units, resultChan, chanClosed,
                   heroResults, heroResp, cacheVars, keyVars>>

\* The inner goroutine of unit i for the abstract returns and closes
\* detailDone.
DetailInnerDone(i, abs) ==
    /\ heroPc = "units"
    /\ units[i].pc # "sent"
    /\ units[i].detailInner = "running"
    /\ units' = [units EXCEPT
                   ![i].detailInner = "done",
                   ![i].genres = IF ~ abs.err /\ abs.subject # NoSubject
                                 THEN abs.subject.types ELSE @]
    /\ UNCHANGED <<heroPc, heroInput, subjects, reqExpired, resultChan, chanClosed,
                   heroResults, heroResp, cacheVars, keyVars>>

\* The inner goroutine of unit i for the backdrop returns and closes tmdbDone.
TmdbInnerDone(i, o) ==
    /\ heroPc = "units"
    /\ units[i].pc # "sent"
    /\ units[i].tmdbInner = "running"
    /\ units' = [units EXCEPT ![i].tmdbInner = "done", ![i].backdropURL = o.url,
                              ![i].tmdbOut = o.kind]
    /\ UNCHANGED <<heroPc, heroInput, subjects, reqExpired, resultChan, chanClosed,
                   heroResults, heroResp, cacheVars, keyVars>>

\* Unit i builds its entry from what it reads and sends it.
UnitSend(i, saw, sawTmdb) ==
    \E g \in ReadLocal(saw, NilSlice, units[i].genres) :
    \E b \in ReadLocal(sawTmdb, NoURL, units[i].backdropURL) :
        /\ resultChan' = Append(resultChan,
                                [index |-> i, hero |-> Hero(subjects[i], g, b)])
        /\ units' = [units EXCEPT ![i].pc = "sent", ![i].sawDetail = saw,
                                  ![i].atBuild = units[i].tmdbInner]

\* The first select of unit i returns, by detailDone or by the context. With
\* TMDB configured the backdrop goroutine is started (SearchMovieBackdrop
\* takes the next key); without, the entry is built and sent.
UnitAfterDetail(i, timedOut) ==
    /\ heroPc = "units"
    /\ units[i].pc = "detail"
    /\ IF timedOut THEN SelectTimesOut(i) ELSE units[i].detailInner = "done"
    /\ IF IsConfigured
       THEN /\ units' = [units EXCEPT ![i].pc = "tmdb", ![i].sawDetail = ~ timedOut,
                                      ![i].tmdbInner = "running"]
            /\ keyIndex' = AddUint64(keyIndex)
            /\ UNCHANGED resultChan
       ELSE /\ UnitSend(i, ~ timedOut, TRUE)
            /\ UNCHANGED keyIndex
    /\ UNCHANGED <<heroPc, heroInput, subjects, reqExpired, chanClosed, heroResults,
                   heroResp, cacheVars, apiKeys, callerPc, callerIdx, observed,
                   returned>>

\* The second select of unit i returns; the entry is built and sent.
UnitAfterTmdb(i, timedOut) ==
    /\ heroPc = "units"
    /\ units[i].pc = "tmdb"
    /\ IF timedOut THEN SelectTimesOut(i) ELSE units[i].tmdbInner = "done"
    /\ UnitSend(i, units[i].sawDetail, ~ timedOut)
    /\ UNCHANGED <<heroPc, heroInput, subjects, reqExpired, chanClosed, heroResults,
                   heroResp, cacheVars, keyVars>>

\* Unit i taken whole: it runs to its send, with or without genres and a
\* backdrop.
UnitRun(i, rich) ==
    /\ heroPc = "units"
    /\ units[i].pc = "detail"
    /\ resultChan' = Append(resultChan,
          [index |-> i,
           hero |-> IF rich
                    THEN Hero(subjects[i], Slice(<<"drama">>), <<"tmdb", "original", "b.jpg">>)
                    ELSE Hero(subjects[i], NilSlice, NoURL)])
    /\ units' = [units EXCEPT ![i].pc = "sent"]
    /\ UNCHANGED <<heroPc, heroInput, subjects, reqExpired, chanClosed, heroResults,
                   heroResp, cacheVars, keyVars>>

\* wg.Wait() returns once every unit has run its deferred wg.Done(), which
\* follows its send. The variant returns once some unit has.
WaitReturnsAfterOne == \E i \in 1 .. Len(units) : units[i].pc = "sent"
WaitReturns == \A i \in 1 .. Len(units) : units[i].pc = "sent"

\* go func() { wg.Wait(); close(resultChan) }()
CloseChan ==
    /\ heroPc = "units"
    /\ ~ chanClosed
    /\ WaitReturns
    /\ chanClosed' = TRUE
    /\ UNCHANGED <<heroPc, heroInput, subjects, units, reqExpired, resultChan,
                   heroResults, heroResp, cacheVars, keyVars>>

\* for result := range resultChan { results[result.index] = result.hero }
Collect ==
    /\ heroPc = "units"
    /\ resultChan # <<>>
    /\ heroResults' = [heroResults EXCEPT
                         ![ResultSlot(Head(resultChan), heroResults)] =
                              Head(resultChan).hero]
    /\ resultChan' = Tail(resultChan)
    /\ UNCHANGED <<heroPc, heroInput, subjects, units, reqExpired, chanClosed,
                   heroResp, cacheVars, keyVars>>

\* The range loop ends: the entries that are not nil are written back (with
\* the request's context: the call fails once that is done) and answered.
HeroRespond(up) ==
    /\ heroPc = "units"
    /\ chanClosed
    /\ resultChan = <<>>
    /\ LET heroMovies == SelectSeq(heroResults, LAMBDA h : h # NilHero)
       IN  /\ IF Len(heroMovies) > 0
              THEN CacheSet(heroDataCacheKey,
                            [typ |-> "hero", val |-> Slice(heroMovies)],
                            up /\ ~ reqExpired)
              ELSE UNCHANGED cacheVars
           /\ heroResp' = [code |-> 200, source |-> "fresh", data |-> Slice(heroMovies)]
    /\ heroPc' = "responded"
    /\ UNCHANGED <<heroInput, subjects, units, reqExpired, resultChan, chanClosed,
                   heroResults, keyVars>>

HeroFrame == UNCHANGED <<fetchVars, handlerVars, invVars, enrichVars, metricVars, trendVars, matchVars, routeVars, backdropVars, keyOfVars, ttlVars, pageVars, authVars, uptimeVars, concVars>>

NextHero ==
    \/ \E up, ok \in BOOLEAN : HeroRequest(up, ok) /\ HeroFrame
    \/ \E i \in 1 .. Len(units) : MovieDeadline(i) /\ HeroFrame
    \/ RequestDeadline /\ HeroFrame
    \/ \E i \in 1 .. Len(units) : \E abs \in AbstractOutcomes(subjects[i].id) :
          DetailInnerDone(i, abs) /\ HeroFrame
    \/ \E i \in 1 .. Len(units) : \E o \in BackdropOutcomes :
          TmdbInnerDone(i, o) /\ HeroFrame
    \/ \E i \in 1 .. Len(units) : \E t \in BOOLEAN : UnitAfterDetail(i, t) /\ HeroFrame
    \/ \E i \in 1 .. Len(units) : \E t \in BOOLEAN : UnitAfterTmdb(i, t) /\ HeroFrame
    \/ CloseChan /\ HeroFrame
    \/ Collect /\ HeroFrame
    \/ \E up \in BOOLEAN : HeroRespond(up) /\ HeroFrame

NextHeroOrder ==
    \/ \E up, ok \in BOOLEAN : HeroRequest(up, ok) /\ HeroFrame
    \/ \E i \in 1 .. Len(units) : \E rich \in BOOLEAN : UnitRun(i, rich) /\ HeroFrame
    \/ CloseChan /\ HeroFrame
    \/ Collect /\ HeroFrame
    \/ \E up \in BOOLEAN : HeroRespond(up) /\ HeroFrame

\* A step of the handler's goroutines or of its timers, as opposed to the
\* return of an upstream fetch.
HeroProgress ==
    \/ \E i \in 1 .. Len(units) : MovieDeadline(i) /\ HeroFrame
    \/ RequestDeadline /\ HeroFrame
    \/ \E i \in 1 .. Len(units) : \E t \in BOOLEAN : UnitAfterDetail(i, t) /\ HeroFrame
    \/ \E i \in 1 .. Len(units) : \E t \in BOOLEAN : UnitAfterTmdb(i, t) /\ HeroFrame
    \/ CloseChan /\ HeroFrame
    \/ Collect /\ HeroFrame
    \/ \E up \in BOOLEAN : HeroRespond(up) /\ HeroFrame

\* Timers fire, and a goroutine that can take a step takes one; an upstream
\* fetch need never return. No step of GetHero can be taken twice, so this
\* is enough for every enabled step to be taken or disabled.
HeroFairness == WF_vars(HeroProgress)

\* The indices of the units of the longest list of HeroInputs.
HeroUnitIds == {1, 2}

(***************************************************************************)
(* Metrics (src/unnamed/part_000)                                          *)
(*                                                                         *)
(* The metrics live in a Redis of their own: one hash per path, one per    *)
(* day and per hour, two global counters and the set of paths. A hash is a *)
(* function on the fields it holds. Latencies are whole milliseconds, an   *)
(* average the pair <<sum, count>> of the quotient it is. The clock stays  *)
(* within one hour, so there is one daily and one hourly hash, and no key  *)
(* outlives its Expire.                                                    *)
(***************************************************************************)

MaxRecords == 3

MetricPaths == {"/a", "/b"}
Latencies   == {10, 30, 50}
StatusCodes == {200, 399, 400, 404}

pathKey(path) == <<"metrics", "path", path>>
dailyKey  == <<"metrics", "daily", "today">>
hourlyKey == <<"metrics", "hourly", "hour">>
HashKeys  == {pathKey(p) : p \in MetricPaths} \cup {dailyKey, hourlyKey}
CounterKeys == {"metrics:global:total", "metrics:global:latency_sum"}

EmptyHash == <<>>
EmptyDB ==
    [hash |-> [k \in HashKeys |-> EmptyHash], counter |-> [k \in CounterKeys |-> 0],
     paths |-> {}]

Cmd(c, k, f, n) == [cmd |-> c, key |-> k, field |-> f, n |-> n]

\* The field RecordAPICall counts the call under, by status and by cacheHit.
\* The variants count every call as a hit, and only status 200 as a success.
CacheFieldAlwaysHit(cacheHit) == "cache_hits"
CacheField(cacheHit) == IF cacheHit THEN "cache_hits" ELSE "cache_misses"
StatusFieldOnly200(statusCode) == IF statusCode = 200 THEN "success" ELSE "error"
StatusField(statusCode) ==
    IF statusCode >= 200 /\ statusCode < 400 THEN "success" ELSE "error"

\* The commands RecordAPICall queues on its pipeline, in order.
Pipeline(path, statusCode, latencyMs, cacheHit) ==
    <<Cmd("HIncrBy", pathKey(path), "total", 1),
      Cmd("HIncrByFloat", pathKey(path), "latency_sum", latencyMs),
      Cmd("HSetNX", pathKey(path), "min_latency", latencyMs),
      Cmd("HSetNX", pathKey(path), "max_latency", latencyMs),
      Cmd("HIncrBy", pathKey(path), StatusField(statusCode), 1),
      Cmd("HIncrBy", pathKey(path), CacheField(cacheHit), 1),
      Cmd("HIncrBy", dailyKey, "total", 1),
      Cmd("HIncrByFloat", dailyKey, "latency_sum", latencyMs),
      Cmd("Expire", dailyKey, "", 0),
      Cmd("HIncrBy", hourlyKey, "total", 1),
      Cmd("Expire", hourlyKey, "", 0),
      Cmd("Incr", "metrics:global:total", "", 1),
      Cmd("IncrByFloat", "metrics:global:latency_sum", "", latencyMs),
      Cmd("SAdd", "metrics:paths", path, 0)>>

\* One command executed by the server.
Apply(db, c) ==
    CASE c.cmd \in {"HIncrBy", "HIncrByFloat"} ->
            LET h == db.hash[c.key]
            IN  [db EXCEPT !.hash[c.key] =
                    IF c.field \in DOMAIN h THEN [h EXCEPT ![c.field] = @ + c.n]
                    ELSE h @@ (c.field :> c.n)]
      [] c.cmd = "HSetNX" ->
            LET h == db.hash[c.key]
            IN  IF c.field \in DOMAIN h THEN db
                ELSE [db EXCEPT !.hash[c.key] = h @@ (c.field :> c.n)]
      [] c.cmd \in {"Incr", "IncrByFloat"} ->
            [db EXCEPT !.counter[c.key] = @ + c.n]
      [] c.cmd = "SAdd" -> [db EXCEPT !.paths = @ \cup {c.field}]
      [] c.cmd = "Expire" -> db

\* The commands cs executed one after the other with nothing in between.
RECURSIVE ExecAll(_, _)
ExecAll(db, cs) == IF cs = <<>> THEN db ELSE ExecAll(Apply(db, Head(cs)), Tail(cs))

\* strconv.ParseInt / ParseFloat of result[field], the error dropped: 0 for
\* a field the hash does not hold.
ParseField(result, field) == IF field \in DOMAIN result THEN result[field] ELSE 0

Avg(sum, n) == IF n > 0 THEN <<sum, n>> ELSE <<0, 1>>

\* GetAPIStats(ctx, path) on the store db
GetAPIStats(db, path) ==
    LET result == db.hash[pathKey(path)]
    IN  IF DOMAIN result = {}
        THEN [path |-> path, total |-> 0, success |-> 0, errors |-> 0,
              avg |-> <<0, 1>>, max |-> 0, min |-> 0, hits |-> 0, misses |-> 0]
        ELSE [path |-> path,
              total   |-> ParseField(result, "total"),
              success |-> ParseField(result, "success"),
              errors  |-> ParseField(result, "error"),
              avg     |-> Avg(ParseField(result, "latency_sum"), ParseField(result, "total")),
              max     |-> ParseField(result, "max_latency"),
              min     |-> ParseField(result, "min_latency"),
              hits    |-> ParseField(result, "cache_hits"),
              misses  |-> ParseField(result, "cache_misses")]

\* The orders in which SMembers can list the set S.
Enumerations(S) ==
    {q \in [1 .. Cardinality(S) -> S] : \A i, j \in 1 .. Cardinality(S) : i # j => q[i] # q[j]}

\* sort.Slice(allStats, TotalCalls descending): some arrangement in which no
\* entry precedes one of more calls; sort.Slice is not stable, the order of
\* entries of equal calls is not determined.
SortedByCalls(all) ==
    {s \in {[i \in 1 .. Len(all) |-> all[p[i]]] : p \in Permutations(1 .. Len(all))} :
        \A i, j \in 1 .. Len(all) : i < j => s[i].total >= s[j].total}

\* if len(allStats) > 10 { allStats[:10] }
TopCount == 10
Top(s) == IF Len(s) > TopCount THEN SubSeq(s, 1, TopCount) ELSE s

\* The entries GetOverallStats gathers, the paths listed in the order
\* `paths`: those with calls.
AllStats(db, paths) ==
    SelectSeq([i \in 1 .. Len(paths) |-> GetAPIStats(db, paths[i])],
              LAMBDA st : st.total > 0)

NoReturn == [op |-> "none"]

\* The key metrics:server:start_time is not there.
NoStart == 0

\* The clock of the uptime runs up to MaxClock.
MaxClock == 3

\* RecordServerStart: Set(metrics:server:start_time, time.Now().Unix(), 0)
ProcessStart == 1

\* startTime, err := Get(uptimeKey).Int64(); if err == nil && startTime > 0
\* { stats.Uptime = time.Now().Unix() - startTime }
Uptime(start, now) == IF start # NoStart /\ start > 0 THEN now - start ELSE 0

UptimeRest ==
    /\ startTime = NoStart
    /\ upClock = ProcessStart

MetricsIdle ==
    /\ mdb = EmptyDB
    /\ seen = [p \in MetricPaths |-> <<>>]
    /\ pending = <<>>
    /\ metricsRet = NoReturn
    /\ reading = NoReturn

Recorded == Len(seen["/a"]) + Len(seen["/b"])

\* RecordAPICall as a whole, no other client of the store acting meanwhile.
RecordAPICall(path, statusCode, latencyMs, cacheHit, up) ==
    /\ pending = <<>>
    /\ Recorded < MaxRecords
    /\ IF up
       THEN /\ mdb' = ExecAll(mdb, Pipeline(path, statusCode, latencyMs, cacheHit))
            /\ seen' = [seen EXCEPT ![path] = Append(@, latencyMs)]
       ELSE UNCHANGED <<mdb, seen>>
    /\ metricsRet' = [op |-> "record", path |-> path, statusCode |-> statusCode,
                      cacheHit |-> cacheHit, ok |-> up]
    /\ UNCHANGED <<pending, reading, uptimeVars>>

\* RecordAPICall up to pipe.Exec: the commands are sent; the server then
\* executes them one by one, other clients' commands in between.
RecordSend(path, statusCode, latencyMs, cacheHit) ==
    /\ pending = <<>>
    /\ Recorded < MaxRecords
    /\ pending' = Pipeline(path, statusCode, latencyMs, cacheHit)
    /\ seen' = [seen EXCEPT ![path] = Append(@, latencyMs)]
    /\ UNCHANGED <<mdb, metricsRet, reading, uptimeVars>>

ServerExec ==
    /\ pending # <<>>
    /\ mdb' = Apply(mdb, Head(pending))
    /\ pending' = Tail(pending)
    /\ UNCHANGED <<seen, metricsRet, reading, uptimeVars>>

\* GetAPIStats(ctx, path): one HGETALL
ReadAPIStats(path) ==
    /\ metricsRet' = [op |-> "stats", stats |-> GetAPIStats(mdb, path)]
    /\ UNCHANGED <<mdb, seen, pending, reading, uptimeVars>>

\* What GetOverallStats returns from the global counters and today's total
\* it read (g) and from the paths as SMembers listed them, the statistics
\* of each, the sort and the truncation. `enumerated` keeps the order
\* SMembers gave.
OverallStats(g, paths, sorted) ==
    [op |-> "overall", total |-> g.total, today |-> g.today,
     avg |-> Avg(g.latencySum, g.total), enumerated |-> paths, top |-> Top(sorted),
     uptime |-> Uptime(startTime, upClock)]

\* The first reads of GetOverallStats: the two global counters and today's
\* total.
ReadGlobals(db) ==
    [op |-> "overall", total |-> db.counter["metrics:global:total"],
     latencySum |-> db.counter["metrics:global:latency_sum"],
     today |-> ParseField(db.hash[dailyKey], "total")]

\* GetOverallStats(ctx) with no other client of the store acting meanwhile.
ReadOverallStats ==
    /\ reading = NoReturn
    /\ \E paths \in Enumerations(mdb.paths) :
       \E sorted \in SortedByCalls(AllStats(mdb, paths)) :
          metricsRet' = OverallStats(ReadGlobals(mdb), paths, sorted)
    /\ UNCHANGED <<mdb, seen, pending, reading, uptimeVars>>

\* GetOverallStats(ctx) among other clients: its first reads, and later its
\* reads of the paths and of their statistics.
OverallBegin ==
    /\ reading = NoReturn
    /\ reading' = ReadGlobals(mdb)
    /\ UNCHANGED <<mdb, seen, pending, metricsRet, uptimeVars>>

OverallFinish ==
    /\ reading # NoReturn
    /\ \E paths \in Enumerations(mdb.paths) :
       \E sorted \in SortedByCalls(AllStats(mdb, paths)) :
          metricsRet' = OverallStats(reading, paths, sorted)
    /\ reading' = NoReturn
    /\ UNCHANGED <<mdb, seen, pending, uptimeVars>>

\* The keys KEYS lists for the pattern "metrics:*": every key of the store
\* that is there, each name starting with "metrics:". The variant leaves
\* metrics:server:start_time out.
MatchesMetricsButStart(key) == key # "metrics:server:start_time"
MatchesMetrics(key) == TRUE

\* ResetMetrics(ctx): KEYS metrics:* and DEL of the keys listed
ResetMetrics(up) ==
    /\ pending = <<>>
    /\ mdb # EmptyDB \/ startTime # NoStart
    /\ IF up THEN /\ mdb' = EmptyDB
                  /\ seen' = [p \in MetricPaths |-> <<>>]
                  /\ startTime' = IF MatchesMetrics("metrics:server:start_time")
                                  THEN NoStart ELSE startTime
       ELSE UNCHANGED <<mdb, seen, startTime>>
    /\ metricsRet' = [op |-> "reset", ok |-> up]
    /\ UNCHANGED <<pending, reading, upClock>>

\* A second passes.
Tick ==
    /\ upClock < MaxClock
    /\ upClock' = upClock + 1
    /\ UNCHANGED <<mdb, seen, pending, metricsRet, reading, startTime>>

MetricsFrame == UNCHANGED <<fetchVars, keyVars, cacheVars, handlerVars, invVars,
                            enrichVars, heroVars, trendVars, matchVars, routeVars, backdropVars, keyOfVars, ttlVars, pageVars, authVars, concVars>>

\* The calls recorded: every status, latency and cache outcome on /a, and
\* successful calls of the shortest latency on /b.
RecordedCalls ==
    {c \in [path : MetricPaths, statusCode : StatusCodes, latencyMs : Latencies,
            cacheHit : BOOLEAN] :
        c.path = "/b" => (c.statusCode = 200 /\ c.latencyMs = 10)}

NextMetrics ==
    \/ \E c \in RecordedCalls, up \in BOOLEAN :
          RecordAPICall(c.path, c.statusCode, c.latencyMs, c.cacheHit, up) /\ MetricsFrame
    \/ \E p \in MetricPaths : ReadAPIStats(p) /\ MetricsFrame
    \/ ReadOverallStats /\ MetricsFrame
    \/ \E up \in BOOLEAN : ResetMetrics(up) /\ MetricsFrame

\* Calls recorded, stats read and resets while the clock runs.
NextUptime ==
    \/ \E up \in BOOLEAN : RecordAPICall("/a", 200, 10, TRUE, up) /\ MetricsFrame
    \/ ReadAPIStats("/a") /\ MetricsFrame
    \/ ReadOverallStats /\ MetricsFrame
    \/ \E up \in BOOLEAN : ResetMetrics(up) /\ MetricsFrame
    \/ Tick /\ MetricsFrame

\* One recorder whose pipeline the server works off while readers read.
NextMetricsConc ==
    \/ \E sc \in StatusCodes : RecordSend("/a", sc, 10, TRUE) /\ MetricsFrame
    \/ ServerExec /\ MetricsFrame
    \/ ReadAPIStats("/a") /\ MetricsFrame
    \/ OverallBegin /\ MetricsFrame
    \/ OverallFinish /\ MetricsFrame

(***************************************************************************)
(* Metrics.getDailyTrend (src/unnamed/part_000)                            *)
(*                                                                         *)
(* The daily hashes by day. A day is its number; its date string, the      *)
(* layout 2006-01-02, names it one to one. The clock moves on while        *)
(* getDailyTrend runs: every pass of its loop reads time.Now() anew.       *)
(***************************************************************************)

\* stats.DailyTrend = m.getDailyTrend(ctx, 7)
trendDays == 7

\* The last day the clock reaches.
MaxDay == 8

Days == 1 .. MaxDay
dailyKeyOf(date) == <<"metrics", "daily", date>>
EmptyDaily == [hash |-> [k \in {dailyKeyOf(d) : d \in Days} |-> EmptyHash]]

\* The commands of RecordAPICall on the daily hash of `date`.
DailyCommands(date, latencyMs) ==
    <<Cmd("HIncrBy", dailyKeyOf(date), "total", 1),
      Cmd("HIncrByFloat", dailyKeyOf(date), "latency_sum", latencyMs),
      Cmd("Expire", dailyKeyOf(date), "", 0)>>

\* The entry getDailyTrend appends for `date` from the HGETALL reply
\* `result`, kept with it.
DailyStats(date, result) ==
    [date |-> date,
     total |-> ParseField(result, "total"),
     avg |-> Avg(ParseField(result, "latency_sum"), ParseField(result, "total")),
     result |-> result]

\* if err != nil { continue }: the day of a failed HGETALL is left out.
Skips(err, result) == err

TrendStopped == [pc |-> "idle", i |-> 0, startedAt |-> 0]

TrendIdle ==
    /\ clock = trendDays
    /\ tdb = EmptyDaily
    /\ trendLoop = TrendStopped
    /\ trend = <<>>

\* Midnight passes.
DayPasses ==
    /\ clock < MaxDay
    /\ clock' = clock + 1
    /\ UNCHANGED <<tdb, trendLoop, trend>>

\* A call is recorded today.
TrendRecord(latencyMs) ==
    /\ ParseField(tdb.hash[dailyKeyOf(clock)], "total") < MaxRecords - 1
    /\ tdb' = ExecAll(tdb, DailyCommands(clock, latencyMs))
    /\ UNCHANGED <<clock, trendLoop, trend>>

\* ResetMetrics deletes every key.
TrendReset ==
    /\ tdb # EmptyDaily
    /\ tdb' = EmptyDaily
    /\ UNCHANGED <<clock, trendLoop, trend>>

\* getDailyTrend(ctx, days) is entered: var trend []DailyStats; i := days - 1
TrendBegin ==
    /\ trendLoop.pc \in {"idle", "done"}
    /\ trendLoop' = [pc |-> "loop", i |-> trendDays - 1, startedAt |-> clock]
    /\ trend' = <<>>
    /\ UNCHANGED <<clock, tdb>>

\* One pass of the loop: the date i days before now, its HGETALL, the
\* entry appended unless the HGETALL failed.
TrendProbe(err) ==
    /\ trendLoop.pc = "loop"
    /\ LET date   == clock - trendLoop.i
           result == tdb.hash[dailyKeyOf(date)]
       IN  trend' = IF Skips(err, result) THEN trend
                    ELSE Append(trend, DailyStats(date, result))
    /\ trendLoop' = IF trendLoop.i = 0 THEN [trendLoop EXCEPT !.pc = "done"]
                    ELSE [trendLoop EXCEPT !.i = @ - 1]
    /\ UNCHANGED <<clock, tdb>>

TrendFrame == UNCHANGED <<fetchVars, keyVars, cacheVars, handlerVars, invVars,
                          enrichVars, heroVars, metricVars, matchVars, routeVars, backdropVars, keyOfVars, ttlVars, pageVars, authVars, uptimeVars, concVars>>

NextTrend ==
    \/ DayPasses /\ TrendFrame
    \/ \E l \in {10, 30} : TrendRecord(l) /\ TrendFrame
    \/ TrendReset /\ TrendFrame
    \/ TrendBegin /\ TrendFrame
    \/ \E err \in BOOLEAN : TrendProbe(err) /\ TrendFrame

(***************************************************************************)
(* TMDBService.findBestMatch (src/unnamed/part_005)                        *)
(*                                                                         *)
(* A string is the sequence of its characters. A score is a whole number:  *)
(* the ratings are whole and every popularity is one less than a power of  *)
(* ten, so that 2 * VoteAverage and 5 * log10(Popularity + 1) are whole.   *)
(***************************************************************************)

\* The longest list of candidates followed.
MaxCandidates == 2

\* strings.ToLower over the letters the titles are written in
ToLower(s) ==
    [k \in 1 .. Len(s) |-> CASE s[k] = "A" -> "a" [] s[k] = "B" -> "b" [] OTHER -> s[k]]

\* strings.Contains(s, substr)
Contains(s, substr) ==
    \E k \in 0 .. Len(s) - Len(substr) : SubSeq(s, k + 1, k + Len(substr)) = substr

DigitChars == <<"0", "1", "2", "3", "4", "5", "6", "7", "8", "9">>
IsDigit(c) == \E d \in 1 .. 10 : DigitChars[d] = c
DigitOf(c) == (CHOOSE d \in 1 .. 10 : DigitChars[d] = c) - 1

\* atoi: the digits of s read as a decimal number, every other character
\* passed over
RECURSIVE atoiFrom(_, _)
atoiFrom(s, result) ==
    IF s = <<>> THEN result
    ELSE atoiFrom(Tail(s), IF IsDigit(Head(s)) THEN result * 10 + DigitOf(Head(s))
                           ELSE result)
atoi(s) == atoiFrom(s, 0)

abs(x) == IF x < 0 THEN 0 - x ELSE x

\* math.Log10 on the powers of ten
RECURSIVE Log10(_)
Log10(n) == IF n < 10 THEN 0 ELSE 1 + Log10(n \div 10)

\* The year term of the score. The variant gives the partial score to a
\* difference of two years as well.
YearTermWithinTwo(result, year) ==
    IF year # <<>> /\ Len(result.release_date) >= 4
    THEN LET movieYear == SubSeq(result.release_date, 1, 4)
         IN  IF movieYear = year THEN 100
             ELSE IF abs(atoi(movieYear) - atoi(year)) <= 2 THEN 50 ELSE 0
    ELSE 0
YearTerm(result, year) ==
    IF year # <<>> /\ Len(result.release_date) >= 4
    THEN LET movieYear == SubSeq(result.release_date, 1, 4)
         IN  IF movieYear = year THEN 100
             ELSE IF abs(atoi(movieYear) - atoi(year)) <= 1 THEN 50 ELSE 0
    ELSE 0

\* The title the candidate is compared by. The variant always takes the
\* display title.
movieTitleDisplayOnly(result) == ToLower(result.title)
movieTitle(result) ==
    IF result.original_title # <<>> THEN ToLower(result.original_title)
    ELSE ToLower(result.title)

\* The title term of the score
TitleTerm(result, searchTitle) ==
    LET searchLower == ToLower(searchTitle)
    IN  IF movieTitle(result) = searchLower THEN 50
        ELSE IF Contains(movieTitle(result), searchLower)
                \/ Contains(searchLower, movieTitle(result)) THEN 25
        ELSE 0

\* Popularity and rating. The variant leaves out the logarithm.
QualityTermUndamped(result) == result.vote_average * 2 + result.popularity * 5
QualityTerm(result) == result.vote_average * 2 + Log10(result.popularity + 1) * 5

Score(result, searchTitle, year) ==
    YearTerm(result, year) + TitleTerm(result, searchTitle) + QualityTerm(result)

\* if result.BackdropPath == "" { continue }. The variant scores every
\* candidate.
SkippedNever(result) == FALSE
Skipped(result) == result.backdrop_path = <<>>

\* if score > bestScore. The variant lets a later candidate of equal score
\* win.
BetterOrEqual(score, bestScore) == score >= bestScore
Better(score, bestScore) == score > bestScore

TMDBSearchResult(title, original, backdrop, release, vote, popularity) ==
    [title |-> title, original_title |-> original, backdrop_path |-> backdrop,
     release_date |-> release, vote_average |-> vote, popularity |-> popularity]

Date(y) == y \o <<"-", "0", "1">>
Y2018 == <<"2", "0", "1", "8">>
Y2019 == <<"2", "0", "1", "9">>
Y2020 == <<"2", "0", "2", "0">>
Y2021 == <<"2", "0", "2", "1">>
Image == <<"/", "b">>

\* The candidates followed: one of each release date and one of each kind of
\* title, all with an image and without votes; two with votes; two without
\* an image.
SearchResults ==
    {TMDBSearchResult(<<"x">>, <<>>, Image, d, 0, 0) :
        d \in {<<>>, <<"2", "0", "2">>, Date(Y2018), Date(Y2019), Date(Y2020), Date(Y2021)}}
    \cup {TMDBSearchResult(t[1], t[2], Image, Date(Y2020), 0, 0) :
        t \in {<<<<"A", "b">>, <<>>>>, <<<<"x">>, <<"A", "B">>>>,
               <<<<"a", "b">>, <<"x">>>>, <<<<"x">>, <<"a", "b", "c">>>>,
               <<<<"b">>, <<>>>>}}
    \cup {TMDBSearchResult(<<"x">>, <<>>, Image, <<>>, 9, 99),
          TMDBSearchResult(<<"a", "b", "c">>, <<>>, Image, Date(Y2018), 10, 99999)}
    \cup {TMDBSearchResult(<<"a", "b">>, <<>>, <<>>, Date(Y2020), 9, 99),
          TMDBSearchResult(<<"x">>, <<>>, <<>>, <<>>, 0, 0)}

\* The titles and years searched for
SearchTitles == {<<"a", "B">>}
SearchYears == {<<>>, Y2020}

NoTerms == [skipped |-> TRUE, year |-> 0, title |-> 0, score |-> 0]
MatchStopped == [pc |-> "idle", i |-> 0, bestScore |-> 0, bestMatch |-> 0, last |-> NoTerms]

MatchRest ==
    /\ matchArgs = [results |-> <<>>, searchTitle |-> <<>>, year |-> <<>>]
    /\ matchGiven = <<>>
    /\ matchLoop = MatchStopped

\* findBestMatch is called: var bestMatch *TMDBSearchResult; bestScore := 0.0
MatchBegin ==
    /\ matchLoop.pc = "idle"
    /\ matchLoop' = [MatchStopped EXCEPT !.pc = "loop", !.i = 1]
    /\ UNCHANGED <<matchArgs, matchGiven>>

\* One pass of the loop over results; bestMatch is the place of the
\* candidate pointed to, 0 for nil.
MatchStep ==
    /\ matchLoop.pc = "loop"
    /\ matchLoop.i <= Len(matchArgs.results)
    /\ LET result == matchArgs.results[matchLoop.i]
           score  == Score(result, matchArgs.searchTitle, matchArgs.year)
       IN  matchLoop' =
             IF Skipped(result)
             THEN [matchLoop EXCEPT !.i = @ + 1, !.last = NoTerms]
             ELSE [pc |-> "loop", i |-> matchLoop.i + 1,
                   bestScore |-> IF Better(score, matchLoop.bestScore) THEN score
                                 ELSE matchLoop.bestScore,
                   bestMatch |-> IF Better(score, matchLoop.bestScore) THEN matchLoop.i
                                 ELSE matchLoop.bestMatch,
                   last |-> [skipped |-> FALSE,
                             year |-> YearTerm(result, matchArgs.year),
                             title |-> TitleTerm(result, matchArgs.searchTitle),
                             score |-> score]]
    /\ UNCHANGED <<matchArgs, matchGiven>>

\* return bestMatch
MatchReturn ==
    /\ matchLoop.pc = "loop"
    /\ matchLoop.i > Len(matchArgs.results)
    /\ matchLoop' = [matchLoop EXCEPT !.pc = "done"]
    /\ UNCHANGED <<matchArgs, matchGiven>>

MatchFrame == UNCHANGED <<fetchVars, keyVars, cacheVars, handlerVars, invVars,
                          enrichVars, heroVars, metricVars, trendVars, routeVars, backdropVars, keyOfVars, ttlVars, pageVars, authVars, uptimeVars, concVars>>

NextMatch ==
    \/ MatchBegin /\ MatchFrame
    \/ MatchStep /\ MatchFrame
    \/ MatchReturn /\ MatchFrame

(***************************************************************************)
(* Client.convertToProxyURL and the request of each attempt of Fetch       *)
(* (src/pkg/httpclient/client.go)                                          *)
(*                                                                         *)
(* A URL is [scheme, host, uri], the host the sequence of its characters   *)
(* and uri what url.URL.RequestURI gives: path and query. A proxy URL is   *)
(* the pair of the proxy base and that uri.                                *)
(***************************************************************************)

MovieDoubanCom ==
    <<"m", "o", "v", "i", "e", ".", "d", "o", "u", "b", "a", "n", ".", "c", "o", "m">>
Img1DoubanioCom ==
    <<"i", "m", "g", "1", ".", "d", "o", "u", "b", "a", "n", "i", "o", ".", "c", "o", "m">>
TmdbOrg == <<"t", "m", "d", "b", ".", "o", "r", "g">>

TargetURLs ==
    {[scheme |-> "https", host |-> h, uri |-> <<"/j/search_tags", "?", "type=movie">>] :
        h \in {MovieDoubanCom, Img1DoubanioCom, TmdbOrg}}

\* The proxy pools: none configured, or two.
ProxyPools == {<<>>, <<"https://proxy1", "https://proxy2">>}
NoProxy == ""

\* getRandomProxy: "" for an empty pool, else any of the pool
getRandomProxy == IF Len(proxies) = 0 THEN {NoProxy} ELSE {proxies[k] : k \in 1 .. Len(proxies)}

\* getRandomUserAgent: any of userAgents
userAgents == {"ua1", "ua2"}

\* strings.Contains(parsed.Hostname(), "douban.com"). The variant looks for
\* "douban" alone.
HostMatchesDouban(host) == Contains(host, <<"d", "o", "u", "b", "a", "n">>)
HostMatches(host) == Contains(host, <<"d", "o", "u", "b", "a", "n", ".", "c", "o", "m">>)

\* convertToProxyURL(originalURL) with `proxy` what getRandomProxy drew
convertToProxyURL(originalURL, proxy) ==
    IF proxy = NoProxy THEN [url |-> originalURL, useProxy |-> FALSE]
    ELSE IF ~ HostMatches(originalURL.host) THEN [url |-> originalURL, useProxy |-> FALSE]
    ELSE [url |-> <<proxy, originalURL.uri>>, useProxy |-> TRUE]

\* The headers Fetch sets on the request of an attempt
NoHeaders == <<>>
DirectHeaders(ua) ==
    [h \in {"User-Agent", "Referer", "Accept", "Accept-Language", "Connection",
            "Cache-Control"} |->
        CASE h = "User-Agent" -> ua
          [] h = "Referer" -> "https://movie.douban.com/"
          [] h = "Accept" -> "application/json, text/plain, */*"
          [] h = "Accept-Language" -> "zh-CN,zh;q=0.9,en;q=0.8"
          [] h = "Connection" -> "keep-alive"
          [] h = "Cache-Control" -> "no-cache"]
HeadersOf(useProxy, ua) == IF useProxy THEN NoHeaders ELSE DirectHeaders(ua)

\* What an attempt that meets outcome o does up to httpClient.Do: the URL
\* it settles on and, unless http.NewRequest fails, the request it builds.
Request(o, proxy, ua) ==
    LET c == convertToProxyURL(targetURL, proxy)
    IN  [url |-> c.url, useProxy |-> c.useProxy, built |-> o.kind # "reqErr",
         header |-> IF o.kind = "reqErr" THEN NoHeaders ELSE HeadersOf(c.useProxy, ua)]

RouteRest ==
    /\ proxies = <<>>
    /\ targetURL = [scheme |-> "https", host |-> MovieDoubanCom,
                    uri |-> <<"/j/search_tags", "?", "type=movie">>]
    /\ requests = <<>>

\* Fetch(targetURL) is entered.
RouteCall ==
    /\ FetchCall
    /\ requests' = <<>>
    /\ UNCHANGED <<proxies, targetURL>>

\* One iteration of the retry loop, from convertToProxyURL to its end.
RouteAttempt(o, proxy, ua) ==
    /\ FetchAttempt(o)
    /\ requests' = Append(requests, Request(o, proxy, ua))
    /\ UNCHANGED <<proxies, targetURL>>

RouteExhausted ==
    /\ FetchExhausted
    /\ UNCHANGED <<proxies, targetURL, requests>>

\* The outcomes followed with the routing: one of each branch of the loop.
RouteOutcomes ==
    {o \in Outcomes : o.kind = "resp" => (o.body = "b1" /\ o.status \in {200, 429, 500})}

RouteFrame ==
    UNCHANGED <<keyVars, cacheVars, handlerVars, invVars, enrichVars, heroVars,
                metricVars, trendVars, matchVars, backdropVars, keyOfVars, ttlVars, pageVars, authVars, uptimeVars, concVars>>

NextRoute ==
    \/ RouteCall /\ RouteFrame
    \/ \E o \in RouteOutcomes, proxy \in getRandomProxy, ua \in userAgents :
          RouteAttempt(o, proxy, ua) /\ RouteFrame
    \/ RouteExhausted /\ RouteFrame

(***************************************************************************)
(* TMDBService.SearchMovieBackdrop called on its own                       *)
(* (src/unnamed/part_005)                                                  *)
(***************************************************************************)

ErrNotConfigured == [kind |-> "error", url |-> NoURL, err |-> "TMDB API key not configured"]
NoBackdrop == [kind |-> "none", url |-> NoURL, err |-> ""]

BackdropRest ==
    /\ backdropRet = NoBackdrop
    /\ tmdbRequests = <<>>

\* The calls of SearchMovieBackdrop made on their own.
MaxBackdropCalls == 2

\* apiKey := s.getNextKey() gives "": the error is returned at once.
SearchMovieBackdropEmpty(c) ==
    /\ Len(returned) < MaxBackdropCalls
    /\ getNextKeyEmpty(c)
    /\ backdropRet' = ErrNotConfigured
    /\ UNCHANGED tmdbRequests

\* apiKey := s.getNextKey(), the atomic add of it
SearchMovieBackdropKey(c) ==
    /\ Len(observed) < MaxBackdropCalls
    /\ getNextKeyAdd(c)
    /\ UNCHANGED <<backdropRet, tmdbRequests>>

\* The key is taken from the pool, the request is sent with it and answered
\* with outcome o.
SearchMovieBackdropSend(c, o) ==
    /\ getNextKeyReturn(c)
    /\ tmdbRequests' = Append(tmdbRequests, [authorization |-> KeyAt(apiKeys, callerIdx[c])])
    /\ backdropRet' = [kind |-> o.kind, url |-> o.url, err |-> IF o.kind = "error" THEN "TMDB search failed" ELSE ""]

BackdropFrame ==
    UNCHANGED <<fetchVars, cacheVars, handlerVars, invVars, enrichVars, heroVars,
                metricVars, trendVars, matchVars, routeVars, keyOfVars, ttlVars, pageVars, authVars, uptimeVars, concVars>>

\* GetHero, and SearchMovieBackdrop called on its own meanwhile.
NextUnconfigured ==
    \/ \E up, ok \in BOOLEAN : HeroRequest(up, ok) /\ HeroFrame
    \/ \E i \in 1 .. Len(units) : MovieDeadline(i) /\ HeroFrame
    \/ RequestDeadline /\ HeroFrame
    \/ \E i \in 1 .. Len(units) : \E d \in AbstractOutcomes(subjects[i].id) :
          DetailInnerDone(i, d) /\ HeroFrame
    \/ \E i \in 1 .. Len(units) : \E o \in BackdropOutcomes :
          TmdbInnerDone(i, o) /\ HeroFrame
    \/ \E i \in 1 .. Len(units) : \E t \in BOOLEAN :
          UnitAfterDetail(i, t) /\ HeroFrame
    \/ \E i \in 1 .. Len(units) : \E t \in BOOLEAN :
          UnitAfterTmdb(i, t) /\ HeroFrame
    \/ CloseChan /\ HeroFrame
    \/ Collect /\ HeroFrame
    \/ \E up \in BOOLEAN : HeroRespond(up) /\ HeroFrame
    \/ SearchMovieBackdropEmpty(1) /\ BackdropFrame
    \/ SearchMovieBackdropKey(1) /\ BackdropFrame
    \/ \E o \in BackdropOutcomes : SearchMovieBackdropSend(1, o) /\ BackdropFrame

(***************************************************************************)
(* The cache keys of Search, GetNew and GetCategory as strings             *)
(* (src/internal/handler/search.go, new.go, src/unnamed/part_002)          *)
(*                                                                         *)
(* Here a string is the sequence of its pieces, ":" a piece of its own,    *)
(* and a parameter value may hold any pieces: fmt.Sprintf writes the       *)
(* values into the format one after the other, whatever they hold.         *)
(***************************************************************************)

\* The strings of the numbers the requests carry, as %d writes them
Itoa(n) ==
    CASE n = 0 -> "0" [] n = 1 -> "1" [] n = 2 -> "2" [] n = 3 -> "3"
      [] n = 20 -> "20" [] n = 21 -> "21" [] n = 30 -> "30" [] n = 50 -> "50"

RECURSIVE Join(_)
Join(parts) == IF parts = <<>> THEN <<>> ELSE Head(parts) \o Join(Tail(parts))

\* fmt.Sprintf("douban:search:%s:%s:%s:%s:%s:%d:%d", query, typ, sort,
\* genres, yearRange, start, limit)
searchKey(r) ==
    Join(<<<<"douban", ":", "search", ":">>, r.q, <<":">>, r.typ, <<":">>, r.sort,
           <<":">>, r.genres, <<":">>, r.yearRange,
           <<":", Itoa(r.start), ":", Itoa(r.limit)>> >>)

\* hasFilters := typ != "" || year != "" || region != "" || genre != ""
hasFilters(r) == r.typ # <<>> \/ r.year # <<>> \/ r.region # <<>> \/ r.genre # <<>>

\* GetNew: fmt.Sprintf("douban:new:%s:%s:%s:%s:%s", typ, year, region, genre,
\* sort) with filters, "douban:new:all" without
newKey(r) ==
    IF hasFilters(r)
    THEN Join(<<<<"douban", ":", "new", ":">>, r.typ, <<":">>, r.year, <<":">>, r.region,
                <<":">>, r.genre, <<":">>, r.sort>>)
    ELSE <<"douban", ":", "new", ":", "all">>

\* GetCategory: fmt.Sprintf("douban:category:%s:page%d:limit%d", category,
\* page, limit)
categoryKey(r) ==
    Join(<<<<"douban", ":", "category", ":">>, r.category,
           <<":", "page", Itoa(r.page), ":", "limit", Itoa(r.limit)>> >>)

cacheKeyOf(r) ==
    CASE r.handler = "search" -> searchKey(r)
      [] r.handler = "new" -> newKey(r)
      [] r.handler = "category" -> categoryKey(r)

\* The requests followed. Search refuses an empty q; GetCategory takes the
\* categories of its table, pages from 1 and limits from 1 to 50.
SearchRequests ==
    [handler : {"search"}, q : {<<"a">>, <<"a", ":", "b">>},
     typ : {<<>>, <<"b">>, <<"c">>, <<"b", ":", "c">>}, sort : {<<"U">>},
     genres : {<<>>}, yearRange : {<<>>}, start : {0, 20}, limit : {20}]
NewRequests ==
    [handler : {"new"}, typ : {<<>>, <<"tv">>}, year : {<<>>, <<"2024">>},
     region : {<<>>}, genre : {<<>>}, sort : {<<"recommend">>, <<"time">>},
     page : {1, 2}, pageSize : {30}]
CategoryRequests ==
    [handler : {"category"}, category : {<<"in_theaters">>, <<"hot_tv">>},
     page : {1, 2}, limit : {20, 50}]

NoKeys == <<>>

KeyOfRest ==
    /\ keyReqs = <<>>
    /\ builtKeys = NoKeys

\* Each of the two requests builds its cache key.
BuildKeys ==
    /\ keyReqs # <<>>
    /\ builtKeys = NoKeys
    /\ builtKeys' = <<cacheKeyOf(keyReqs[1]), cacheKeyOf(keyReqs[2])>>
    /\ UNCHANGED keyReqs

KeyOfFrame ==
    UNCHANGED <<fetchVars, keyVars, cacheVars, handlerVars, invVars, enrichVars,
                heroVars, metricVars, trendVars, matchVars, routeVars, backdropVars,
                ttlVars, pageVars, authVars, uptimeVars, concVars>>

NextKeyOf ==
    \/ BuildKeys /\ KeyOfFrame

(***************************************************************************)
(* The expiration each handler gives its cache entry                       *)
(* (src/internal/config/config.go, src/unnamed/part_006,                   *)
(*  src/internal/repository/cache.go, the handlers' calls of Cache.Set)    *)
(*                                                                         *)
(* Durations are in minutes. An environment value is <<>> when the         *)
(* variable is unset or is not a number, and <<n>> when it reads n.        *)
(***************************************************************************)

\* getDurationMinutes: the value of the environment when it is a number
\* above 0, the default otherwise.
getDurationMinutes(env, defaultMinutes) ==
    IF env # <<>> /\ env[1] > 0 THEN env[1] ELSE defaultMinutes

\* Load: the TTL fields of the configuration
Load(env) ==
    [CacheTTLHero     |-> getDurationMinutes(env.hero, 360),
     CacheTTLDetail   |-> getDurationMinutes(env.detail, 1440),
     CacheTTLCategory |-> getDurationMinutes(env.category, 60),
     CacheTTLSearch   |-> getDurationMinutes(env.search, 30),
     CacheTTLDefault  |-> getDurationMinutes(env.default, 60)]

Environments ==
    [hero : {<<>>, <<10>>, <<0>>}, detail : {<<>>, <<10>>}, category : {<<>>, <<10>>},
     search : {<<>>, <<10>>}, default : {<<>>}]

\* main: repository.NewCache(cfg.RedisURL, 1*time.Hour)
defaultTTL == 60

\* The 24 hours the comment of GetSearchTags states
TagsTTL == 1440

\* Cache.Set: the expiration is the first of the optional ttl arguments,
\* the cache's defaultTTL when there is none.
expiration(ttl) == IF Len(ttl) > 0 THEN ttl[1] ELSE defaultTTL

\* One key of each class of data
Classes == {"hero", "detail", "category", "search", "tags"}

NoEntry == <<>>

TTLRest ==
    /\ cfg = Load([hero |-> <<>>, detail |-> <<>>, category |-> <<>>,
                   search |-> <<>>, default |-> <<>>])
    /\ expires = [k \in Classes |-> NoEntry]

\* A handler answers from the cache when its key is there; on a miss it
\* fetches and writes.
Miss(k) == expires[k] = NoEntry

CacheSetTTL(k, ttl) == expires' = [expires EXCEPT ![k] = <<expiration(ttl)>>]

\* HeroHandler.GetHero: h.cache.Set(ctx, heroDataCacheKey, heroMovies,
\* h.cacheTTL) when there is a hero movie; main gives cfg.CacheTTLHero.
TTLGetHero(count) ==
    /\ Miss("hero")
    /\ IF count > 0 THEN CacheSetTTL("hero", <<cfg.CacheTTLHero>>)
                    ELSE UNCHANGED expires
    /\ UNCHANGED cfg

\* DetailHandler.GetDetail: h.cache.Set(ctx, cacheKey, detailData) once the
\* detail is fetched.
TTLGetDetail(fetched) ==
    /\ Miss("detail")
    /\ IF fetched THEN CacheSetTTL("detail", <<>>) ELSE UNCHANGED expires
    /\ UNCHANGED cfg

\* CategoryHandler.GetCategory: h.cache.Set(ctx, cacheKey, ...) once the
\* subjects are fetched.
TTLGetCategory(fetched) ==
    /\ Miss("category")
    /\ IF fetched THEN CacheSetTTL("category", <<>>) ELSE UNCHANGED expires
    /\ UNCHANGED cfg

\* SearchHandler.Search: h.cache.Set(ctx, cacheKey, result), whatever the
\* two searches gave.
TTLSearch ==
    /\ Miss("search")
    /\ CacheSetTTL("search", <<>>)
    /\ UNCHANGED cfg

\* SearchHandler.GetSearchTags: h.cache.Set(ctx, cacheKey, tags), whatever
\* GetSearchTags gave.
TTLGetSearchTags ==
    /\ Miss("tags")
    /\ CacheSetTTL("tags", <<>>)
    /\ UNCHANGED cfg

\* The store drops an entry when its expiration has run out.
TTLExpire(k) ==
    /\ expires[k] # NoEntry
    /\ expires' = [expires EXCEPT ![k] = NoEntry]
    /\ UNCHANGED cfg

TTLFrame ==
    UNCHANGED <<fetchVars, keyVars, cacheVars, handlerVars, invVars, enrichVars,
                heroVars, metricVars, trendVars, matchVars, routeVars, backdropVars,
                keyOfVars, pageVars, authVars, uptimeVars, concVars>>

NextTTL ==
    \/ \E count \in {0, 1} : TTLGetHero(count) /\ TTLFrame
    \/ \E fetched \in BOOLEAN : TTLGetDetail(fetched) /\ TTLFrame
    \/ \E fetched \in BOOLEAN : TTLGetCategory(fetched) /\ TTLFrame
    \/ TTLSearch /\ TTLFrame
    \/ TTLGetSearchTags /\ TTLFrame
    \/ \E k \in Classes : TTLExpire(k) /\ TTLFrame

(***************************************************************************)
(* The pagination of GetCategory and of GetNew with filters                *)
(* (src/unnamed/part_002, src/internal/handler/new.go)                     *)
(*                                                                         *)
(* A behaviour follows the requests for one page of one listing. The       *)
(* subjects are numbered; what counts below is how many there are.         *)
(***************************************************************************)

\* The pages followed are 1 .. MaxPage.
MaxPage == 2

\* `limit` of GetCategory is accepted from 1 to 50; the same sizes are
\* followed for pageSize of GetNew.
PageSizes == {1, 2, 50}

PageRequests == [handler : {"category", "new"}, page : 1 .. MaxPage, size : PageSizes]

\* What SearchSubjects(typ, tag, size, start) gives: an error, or a number
\* of subjects, which an upstream that ignores the size asked for may
\* exceed by one.
Subjects(n) == [i \in 1 .. n |-> i]
PageOutcomes(size) ==
    {[st |-> "err", subjects |-> <<>>]}
       \cup {[st |-> "ok", subjects |-> Subjects(n)] : n \in 0 .. size + 1}

\* estimatedTotal := 100
estimatedTotal == 100

\* GetCategory, fresh: estimatedTotal is 100 unless len(subjects) < limit,
\* and then pageStart + len(subjects); HasMore: len(subjects) == limit.
categoryFreshPagination(page, limit, subs) ==
    LET pageStart == (page - 1) * limit
    IN [total   |-> IF Len(subs) < limit THEN pageStart + Len(subs)
                                          ELSE estimatedTotal,
        hasMore |-> Len(subs) = limit]

\* GetCategory, from the cache: Total: cachedData.Total, HasMore:
\* pageStart+len(cachedData.Subjects) < cachedData.Total.
categoryCachedPagination(page, limit, cachedData) ==
    LET pageStart == (page - 1) * limit
    IN [total   |-> cachedData.total,
        hasMore |-> pageStart + Len(cachedData.subjects) < cachedData.total]

\* fetchWithTagSearch: no subjects, 0 and false on an error; otherwise
\* page*pageSize + pageSize for len(subjects) >= pageSize and
\* (page-1)*pageSize + len(subjects) below it; hasMore: len(subjects) >=
\* pageSize.
fetchWithTagSearch(page, pageSize, o) ==
    IF o.st = "err"
    THEN [subjects |-> <<>>, total |-> 0, hasMore |-> FALSE]
    ELSE [subjects |-> o.subjects,
          total    |-> IF Len(o.subjects) >= pageSize
                       THEN page * pageSize + pageSize
                       ELSE (page - 1) * pageSize + Len(o.subjects),
          hasMore  |-> Len(o.subjects) >= pageSize]

NoPage == [kind |-> "none", count |-> 0, total |-> 0, hasMore |-> FALSE]
PageResp(kind, subs, p) ==
    [kind |-> kind, count |-> Len(subs), total |-> p.total, hasMore |-> p.hasMore]

PageRest ==
    /\ pgReq = [handler |-> "category", page |-> 1, size |-> 1]
    /\ pgStore = <<>>
    /\ pgResp = NoPage
    /\ pgFresh = NoPage

\* GetCategory on a miss: a failing SearchSubjects is answered with 500;
\* otherwise the subjects and the total are written to the cache (the write
\* may fail, its error is dropped) and the fresh pagination is answered.
GetCategoryFresh(o, up) ==
    /\ pgReq.handler = "category"
    /\ pgStore = <<>>
    /\ IF o.st = "err"
       THEN /\ pgResp' = [NoPage EXCEPT !.kind = "error"]
            /\ UNCHANGED <<pgStore, pgFresh>>
       ELSE LET p == categoryFreshPagination(pgReq.page, pgReq.size, o.subjects)
            IN /\ pgResp' = PageResp("fresh", o.subjects, p)
               /\ IF up
                  THEN /\ pgStore' = <<[subjects |-> o.subjects, total |-> p.total]>>
                       /\ pgFresh' = PageResp("fresh", o.subjects, p)
                  ELSE UNCHANGED <<pgStore, pgFresh>>
    /\ UNCHANGED pgReq

\* GetCategory on a hit.
GetCategoryCached ==
    /\ pgReq.handler = "category"
    /\ pgStore # <<>>
    /\ pgResp' = PageResp("cache", pgStore[1].subjects,
                          categoryCachedPagination(pgReq.page, pgReq.size, pgStore[1]))
    /\ UNCHANGED <<pgReq, pgStore, pgFresh>>

\* GetNew with filters: it answers what fetchWithTagSearch gave and returns
\* before the cache is written.
GetNewFiltered(o) ==
    /\ pgReq.handler = "new"
    /\ LET r == fetchWithTagSearch(pgReq.page, pgReq.size, o)
       IN pgResp' = PageResp(IF o.st = "err" THEN "failed" ELSE "fresh", r.subjects, r)
    /\ UNCHANGED <<pgReq, pgStore, pgFresh>>

\* The entry expires or DeleteCategoryCache removes it.
PageEntryGone ==
    /\ pgStore # <<>>
    /\ pgStore' = <<>>
    /\ UNCHANGED <<pgReq, pgResp, pgFresh>>

PageFrame ==
    UNCHANGED <<fetchVars, keyVars, cacheVars, handlerVars, invVars, enrichVars,
                heroVars, metricVars, trendVars, matchVars, routeVars, backdropVars,
                keyOfVars, ttlVars, authVars, uptimeVars, concVars>>

NextPage ==
    \/ \E o \in PageOutcomes(pgReq.size) : \E up \in BOOLEAN :
          GetCategoryFresh(o, up) /\ PageFrame
    \/ GetCategoryCached /\ PageFrame
    \/ \E o \in PageOutcomes(pgReq.size) : GetNewFiltered(o) /\ PageFrame
    \/ PageEntryGone /\ PageFrame

(***************************************************************************)
(* The admin routes behind AdminAuth                                       *)
(* (src/internal/middleware/admin_auth.go, src/unnamed/part_006)           *)
(*                                                                         *)
(* A string is the sequence of its pieces; the scheme prefixes "Bearer "   *)
(* and "ApiKey " are pieces of their own.                                  *)
(***************************************************************************)

\* strings.TrimPrefix(s, prefix)
TrimPrefix(s, prefix) ==
    IF Len(s) >= Len(prefix) /\ SubSeq(s, 1, Len(prefix)) = prefix
    THEN SubSeq(s, Len(prefix) + 1, Len(s))
    ELSE s

Bearer == <<"Bearer ">>
ApiKey == <<"ApiKey ">>

\* `if auth != apiKey`: the request goes on when the two are equal. The
\* variant lets every request with a token go on.
KeyAcceptedAnyToken(auth, apiKey) == auth # <<>>
KeyAccepted(auth, apiKey) == auth = apiKey

\* AdminAuth(apiKey) on a request with the given Authorization header and
\* api_key parameter: 0 when it calls c.Next(), the status it aborts with
\* otherwise.
AdminAuth(apiKey, header, query) ==
    IF apiKey = <<>> THEN 0
    ELSE IF header = <<>>
         THEN IF query = <<>> THEN 401
              ELSE IF KeyAccepted(query, apiKey) THEN 0 ELSE 403
         ELSE IF KeyAccepted(TrimPrefix(TrimPrefix(header, Bearer), ApiKey), apiKey)
              THEN 0 ELSE 403

\* main: the routes of the admin group, and one of the public group.
AdminRoutes == {"GET /analytics", "DELETE /analytics", "DELETE /movies"}
PublicRoutes == {"GET /movies"}

AdminKeys == {<<>>, <<"k">>}
AuthHeaders ==
    {<<>>, <<"k">>, <<"x">>, Bearer \o <<"k">>, ApiKey \o <<"k">>, Bearer \o <<"x">>,
     Bearer, Bearer \o ApiKey \o <<"k">>, ApiKey \o Bearer \o <<"k">>}
AuthQueries == {<<>>, <<"k">>, <<"x">>}

NoAuthReq == [route |-> "none", header |-> <<>>, query |-> <<>>]
NoAuthResp == [status |-> 0, ran |-> FALSE]

AuthRest ==
    /\ authKey = <<>>
    /\ authReq = NoAuthReq
    /\ authResp = NoAuthResp

\* A request is served: on an admin route the middleware runs first and
\* the handler only after c.Next(); on a public route the handler runs.
ServeRequest(route, header, query) ==
    /\ authReq' = [route |-> route, header |-> header, query |-> query]
    /\ LET st == IF route \in AdminRoutes THEN AdminAuth(authKey, header, query) ELSE 0
       IN authResp' = IF st = 0 THEN [status |-> 200, ran |-> TRUE]
                                ELSE [status |-> st, ran |-> FALSE]
    /\ UNCHANGED authKey

AuthFrame ==
    UNCHANGED <<fetchVars, keyVars, cacheVars, handlerVars, invVars, enrichVars,
                heroVars, metricVars, trendVars, matchVars, routeVars, backdropVars,
                keyOfVars, ttlVars, pageVars, uptimeVars, concVars>>

NextAuth ==
    \/ \E route \in AdminRoutes \cup PublicRoutes :
          \E header \in AuthHeaders : \E query \in AuthQueries :
             ServeRequest(route, header, query) /\ AuthFrame

(***************************************************************************)
(* The Metrics middleware around the data handlers                         *)
(* (src/internal/middleware/cors.go)                                       *)
(*                                                                         *)
(* The middleware calls c.Next(), which runs the handler, and then records *)
(* the request with the status written and with cacheHit true when the     *)
(* handler set "cache_source" to "redis-cache". Requests are followed one  *)
(* after the other, with the DELETE route of the handler and the expiry of *)
(* its entry in between.                                                   *)
(***************************************************************************)

\* The handlers followed under the middleware, and the DELETE route of each.
ServeHandlers == {"movies", "category", "search"}

\* The first sub-fetch of the fan-out fails or answers with subjects, the
\* others answer with subjects.
ServeOutcomes(i, tag) ==
    {o \in SearchOutcomes(tag) :
        \/ i = 1 /\ o.st = "err"
        \/ Len(o.subjects.elems) > 0}

\* The path the request is recorded under, normalizePath(c.Request.URL.Path):
\* the store of the metrics holds the paths of MetricPaths, and the route of
\* the handler followed is the first of them.
RequestPath == "/a"

\* The part of Metrics after c.Next(): status := c.Writer.Status(); cacheHit
\* is true when c.GetString("cache_source") is "redis-cache"; RecordAPICall,
\* whose error is logged and dropped.
MetricsMiddleware(latency, up) ==
    /\ reqPc = "responded"
    /\ ~recorded
    /\ RecordAPICall(RequestPath, resp.code, latency, cache_source = "redis-cache", up)
    /\ recorded' = TRUE
    /\ UNCHANGED <<reqPc, reqHandler, reqLookup, results, taskOutcome, primary,
                   setErr, resp, cache_source, cacheVars>>

\* The DELETE route of the handler followed.
DeleteEndpoint(upKeys1, upDel1, upKeys2, upDel2) ==
    \/ /\ reqHandler = "movies"
       /\ InvalidateKey("movies", upKeys1)
    \/ /\ reqHandler = "category"
       /\ InvalidatePattern("category", upKeys1, upDel1)
    \/ /\ reqHandler = "search"
       /\ InvalidateSearch(upKeys1, upDel1, upKeys2, upDel2)

ServeFrame ==
    UNCHANGED <<fetchVars, keyVars, invVars, enrichVars, heroVars, trendVars, matchVars,
                routeVars, backdropVars, keyOfVars, ttlVars, pageVars, authVars, concVars>>

NextServe ==
    \/ \E up \in BOOLEAN :
          /\ reqPc = "responded" => recorded
          /\ HandleRequest(up) /\ HandlerFrame
    \/ SpawnTasks /\ HandlerFrame
    \/ \E i \in 1 .. Len(taskOutcome) :
          \E o \in ServeOutcomes(i, SubTasks(reqHandler)[i].tag) :
             TaskDone(i, o) /\ HandlerFrame
    \/ \E up \in BOOLEAN : FanOutRespond(up) /\ HandlerFrame
    \/ \E up \in BOOLEAN : SingleRespond(up) /\ HandlerFrame
    \/ \E up \in BOOLEAN : MetricsMiddleware(10, up) /\ ServeFrame
    \/ \E upKeys1 \in BOOLEAN, upDel1 \in BOOLEAN, upKeys2 \in BOOLEAN, upDel2 \in BOOLEAN :
          /\ reqPc \in {"idle", "responded"}
          /\ DeleteEndpoint(upKeys1, upDel1, upKeys2, upDel2) /\ InvFrame
    \/ \E k \in DOMAIN store :
          StoreExpire(k) /\ UNCHANGED handlerVars /\ HandlerFrame

(***************************************************************************)
(* Concurrent requests of GetMovies for the uncached key                   *)
(* (src/unnamed/part_003, src/internal/repository/cache.go)                *)
(*                                                                         *)
(* Each request runs in a goroutine of its own: it looks the key up, makes *)
(* its own `results`, starts a sub-fetch per category, waits for them and  *)
(* writes `results` back with one Cache.Set, which marshals the whole      *)
(* value and sends one SET. The requests interleave freely.                *)
(***************************************************************************)

\* The requests running side by side.
MaxRequests == 2
Requesters == 1 .. MaxRequests

\* The first two categories of GetMovies.
ConcTasks == <<SubTasks("movies")[1], SubTasks("movies")[2]>>

\* A sub-fetch fails or answers with subjects.
ConcOutcomes(tag) ==
    {o \in SearchOutcomes(tag) : o.st = "err" \/ Len(o.subjects.elems) > 0}

\* results := make([]model.CategoryData, len(categories)): a slice of the
\* call's own. The variant has the calls share one slice.
ResultsOfShared(r) == 1
ResultsOf(r) == r

ConcRest ==
    /\ concPc = [r \in Requesters |-> "idle"]
    /\ concResults = [r \in Requesters |-> <<>>]
    /\ concFetched = [r \in Requesters |-> <<>>]

\* Request r enters GetMovies and looks the key up; on a hit it answers, else
\* it makes its results and starts the sub-fetches.
ConcLookup(r, up) ==
    /\ concPc[r] = "idle"
    /\ CacheGet(moviesCacheKey, "categories", up)
    /\ IF CacheHit(lastOp'.err)
       THEN /\ concPc' = [concPc EXCEPT ![r] = "responded"]
            /\ UNCHANGED <<concResults, concFetched>>
       ELSE /\ concPc' = [concPc EXCEPT ![r] = "wait"]
            /\ concResults' = [concResults EXCEPT ![ResultsOf(r)] =
                                  [i \in 1 .. Len(ConcTasks) |-> Zero(TCategoryData)]]
            /\ concFetched' = [concFetched EXCEPT ![r] =
                                  [i \in 1 .. Len(ConcTasks) |-> Pending]]

\* Sub-fetch i of request r returns o and fills its slot of the results.
ConcTaskDone(r, i, o) ==
    /\ concPc[r] = "wait"
    /\ concFetched[r][i] = Pending
    /\ concFetched' = [concFetched EXCEPT ![r][i] = o]
    /\ concResults' = [concResults EXCEPT ![ResultsOf(r)][SlotOf(i, Len(ConcTasks))] =
                          SlotValue(ConcTasks[i], o)]
    /\ UNCHANGED <<concPc, cacheVars>>

\* wg.Wait() of request r returns; h.cache.Set(ctx, moviesCacheKey, results)
\* and the answer.
ConcRespond(r, up) ==
    /\ concPc[r] = "wait"
    /\ \A i \in 1 .. Len(ConcTasks) : concFetched[r][i] # Pending
    /\ CacheSet(moviesCacheKey,
                [typ |-> "categories", val |-> Slice(concResults[ResultsOf(r)])], up)
    /\ concPc' = [concPc EXCEPT ![r] = "responded"]
    /\ UNCHANGED <<concResults, concFetched>>

ConcFrame ==
    UNCHANGED <<fetchVars, keyVars, handlerVars, invVars, enrichVars, heroVars, metricVars,
                trendVars, matchVars, routeVars, backdropVars, keyOfVars, ttlVars, pageVars,
                authVars, uptimeVars>>

NextConc ==
    \/ \E r \in Requesters, up \in BOOLEAN : ConcLookup(r, up) /\ ConcFrame
    \/ \E r \in Requesters, i \in 1 .. Len(ConcTasks) :
          \E o \in ConcOutcomes(ConcTasks[i].tag) : ConcTaskDone(r, i, o) /\ ConcFrame
    \/ \E r \in Requesters, up \in BOOLEAN : ConcRespond(r, up) /\ ConcFrame
    \/ StoreExpire(moviesCacheKey) /\ UNCHANGED concVars /\ ConcFrame

(***************************************************************************)
(* Specifications                                                          *)
(***************************************************************************)

\* The components a specification leaves alone stand idle.
EnrichRest == enReq = [handler |-> "detail", id |-> "1", typ |-> ""] /\ EnrichIdle

HeroRest == heroInput = <<>> /\ HeroIdle

RestIdle == InvIdle /\ EnrichRest /\ HeroRest /\ MetricsIdle /\ TrendIdle /\ MatchRest /\ RouteRest /\ BackdropRest /\ KeyOfRest /\ TTLRest /\ PageRest /\ AuthRest /\ UptimeRest /\ ConcRest

KeysIdle ==
    /\ apiKeys = KeyPool(0)
    /\ keyIndex = 0
    /\ callerPc = [c \in Callers |-> "idle"]
    /\ callerIdx = [c \in Callers |-> 0]
    /\ observed = <<>>
    /\ returned = <<>>

InitFetch   == FetchInit /\ KeysIdle /\ CacheInit /\ HandlerInit /\ reqHandler = "movies" /\ RestIdle
InitKeys    == FetchInit /\ KeysInit /\ CacheInit /\ HandlerInit /\ reqHandler = "movies" /\ RestIdle
InitCache   == FetchInit /\ KeysIdle /\ CacheInit /\ HandlerInit /\ reqHandler = "movies" /\ RestIdle
InitHandler ==
    /\ FetchInit
    /\ KeysIdle
    /\ HandlerInit
    /\ CacheEmpty({HandlerKey(reqHandler)})
    /\ RestIdle

\* One of the handlers served under the middleware, nothing cached and
\* nothing recorded.
InitServe ==
    /\ FetchInit
    /\ KeysIdle
    /\ HandlerIdle
    /\ reqHandler \in ServeHandlers
    /\ CacheEmpty({HandlerKey(reqHandler)})
    /\ RestIdle

\* The requests of GetMovies about to enter, nothing cached.
InitConc ==
    /\ FetchInit
    /\ KeysIdle
    /\ HandlerInit
    /\ reqHandler = "movies"
    /\ CacheEmpty({moviesCacheKey})
    /\ RestIdle

\* Every key holds a payload when the invalidation handlers are followed.
InitInvalidate ==
    /\ FetchInit
    /\ KeysIdle
    /\ HandlerInit
    /\ reqHandler = "movies"
    /\ store = [k \in InvKeys |-> JNull]
    /\ lastOp = NoOp
    /\ written = [k \in InvKeys |-> Unwritten]
    /\ InvIdle
    /\ EnrichRest
    /\ HeroRest
    /\ MetricsIdle /\ TrendIdle /\ MatchRest /\ RouteRest /\ BackdropRest /\ KeyOfRest /\ TTLRest /\ PageRest /\ AuthRest /\ UptimeRest /\ ConcRest

\* One request shape of GetDetail or Search, its key not cached yet.
InitEnrich ==
    /\ FetchInit
    /\ KeysIdle
    /\ HandlerInit
    /\ reqHandler = "movies"
    /\ InvIdle
    /\ EnrichInit
    /\ CacheEmpty({EnrichKey(enReq)})
    /\ HeroRest
    /\ MetricsIdle /\ TrendIdle /\ MatchRest /\ RouteRest /\ BackdropRest /\ KeyOfRest /\ TTLRest /\ PageRest /\ AuthRest /\ UptimeRest /\ ConcRest

\* A list GetHero wrote back earlier, still in the store.
HeroCached ==
    LET v == Slice(<<Hero(HeroSubject("m1", "9.1", SmallPoster("p1")), NilSlice, NoURL)>>)
    IN  /\ store = [k \in {heroDataCacheKey} |-> Marshal(v, TypeOf("hero"))]
        /\ lastOp = NoOp
        /\ written = [k \in {heroDataCacheKey} |-> [st |-> "set", typ |-> "hero", val |-> v]]

\* GetHero with TMDB configured or not, the list cached or not.
HeroRestIdle ==
    /\ FetchInit
    /\ apiKeys \in {KeyPool(0), KeyPool(1)}
    /\ keyIndex = 0
    /\ callerPc = [c \in Callers |-> "idle"]
    /\ callerIdx = [c \in Callers |-> 0]
    /\ observed = <<>>
    /\ returned = <<>>
    /\ HandlerInit
    /\ reqHandler = "movies"
    /\ InvIdle
    /\ EnrichRest
    /\ (CacheEmpty({heroDataCacheKey}) \/ HeroCached)
    /\ HeroIdle
    /\ MetricsIdle /\ TrendIdle /\ MatchRest /\ RouteRest /\ BackdropRest /\ KeyOfRest /\ TTLRest /\ PageRest /\ AuthRest /\ UptimeRest /\ ConcRest

\* The metrics store empty, as after a reset.
InitMetrics ==
    /\ FetchInit
    /\ KeysIdle
    /\ CacheInit
    /\ HandlerInit
    /\ reqHandler = "movies"
    /\ InvIdle
    /\ EnrichRest
    /\ HeroRest
    /\ MetricsIdle /\ TrendIdle /\ MatchRest /\ RouteRest /\ BackdropRest /\ KeyOfRest /\ TTLRest /\ PageRest /\ AuthRest /\ UptimeRest /\ ConcRest

\* The metrics store empty and the start time recorded at the start of the
\* process.
InitUptime ==
    /\ FetchInit
    /\ KeysIdle
    /\ CacheInit
    /\ HandlerInit
    /\ reqHandler = "movies"
    /\ InvIdle
    /\ EnrichRest
    /\ HeroRest
    /\ MetricsIdle /\ TrendIdle /\ MatchRest /\ RouteRest /\ BackdropRest /\ KeyOfRest /\ TTLRest /\ PageRest /\ AuthRest
    /\ startTime = ProcessStart
    /\ upClock = ProcessStart
    /\ ConcRest

\* The two-subject list is followed with TMDB configured and nothing cached.
InitHero ==
    /\ HeroRestIdle
    /\ heroInput \in HeroInputs
    /\ Len(heroInput) > 1 => (IsConfigured /\ store[heroDataCacheKey] = Absent)
\* Under the fairness condition the two-subject list is followed with TMDB
\* unconfigured, the one-subject list with and without.
InitHeroFair ==
    /\ HeroRestIdle
    /\ heroInput \in HeroInputs
    /\ Len(heroInput) > 1 => (~ IsConfigured /\ store[heroDataCacheKey] = Absent)

\* The units taken whole make no use of TMDB.
InitHeroOrder ==
    /\ HeroRestIdle
    /\ heroInput \in HeroOrderInputs
    /\ Len(heroInput) > 2 => (~ IsConfigured /\ store[heroDataCacheKey] = Absent)

\* findBestMatch on a list of at most MaxCandidates candidates.
InitMatch ==
    /\ FetchInit
    /\ KeysIdle
    /\ CacheInit
    /\ HandlerInit
    /\ reqHandler = "movies"
    /\ InvIdle
    /\ EnrichRest
    /\ HeroRest
    /\ MetricsIdle
    /\ TrendIdle
    /\ \E n \in 0 .. MaxCandidates :
          \E rs \in [1 .. n -> SearchResults], t \in SearchTitles, y \in SearchYears :
             matchArgs = [results |-> rs, searchTitle |-> t, year |-> y]
    /\ matchGiven = matchArgs.results
    /\ matchLoop = MatchStopped
    /\ RouteRest
    /\ BackdropRest /\ KeyOfRest /\ TTLRest /\ PageRest /\ AuthRest /\ UptimeRest /\ ConcRest

\* Fetch with or without a proxy pool, of a URL of the upstream or not.
InitRoute ==
    /\ FetchInit
    /\ KeysIdle
    /\ CacheInit
    /\ HandlerInit
    /\ reqHandler = "movies"
    /\ InvIdle
    /\ EnrichRest
    /\ HeroRest
    /\ MetricsIdle
    /\ TrendIdle
    /\ MatchRest
    /\ proxies \in ProxyPools
    /\ targetURL \in TargetURLs
    /\ requests = <<>>
    /\ BackdropRest /\ KeyOfRest /\ TTLRest /\ PageRest /\ AuthRest /\ UptimeRest /\ ConcRest

\* GetHero and SearchMovieBackdrop with no key configured, or with one.
InitUnconfigured == InitHeroFair

AllButKeyOfAndTTL ==
    /\ FetchInit
    /\ KeysIdle
    /\ CacheInit
    /\ HandlerInit
    /\ reqHandler = "movies"
    /\ InvIdle
    /\ EnrichRest
    /\ HeroRest
    /\ MetricsIdle
    /\ TrendIdle
    /\ MatchRest
    /\ RouteRest
    /\ backdropRet = NoBackdrop
    /\ tmdbRequests = <<>>

\* Two requests of the same handler.
InitKeyOf ==
    /\ AllButKeyOfAndTTL
    /\ \E R \in {SearchRequests, NewRequests, CategoryRequests} :
          keyReqs \in R \X R
    /\ builtKeys = NoKeys
    /\ TTLRest /\ PageRest /\ AuthRest /\ UptimeRest /\ ConcRest

\* One page of one listing, not cached yet.
InitPage ==
    /\ AllButKeyOfAndTTL
    /\ KeyOfRest
    /\ TTLRest
    /\ pgReq \in PageRequests
    /\ pgStore = <<>>
    /\ pgResp = NoPage
    /\ pgFresh = NoPage
    /\ AuthRest /\ UptimeRest /\ ConcRest

\* The admin routes under a configured key, or none.
InitAuth ==
    /\ AllButKeyOfAndTTL
    /\ KeyOfRest
    /\ TTLRest
    /\ PageRest
    /\ authKey \in AdminKeys
    /\ authReq = NoAuthReq
    /\ authResp = NoAuthResp
    /\ UptimeRest /\ ConcRest

\* The handlers' cache writes under a configuration read from the
\* environment.
InitTTL ==
    /\ AllButKeyOfAndTTL
    /\ KeyOfRest
    /\ cfg \in {Load(env) : env \in Environments}
    /\ expires = [k \in Classes |-> NoEntry]
    /\ PageRest /\ AuthRest /\ UptimeRest /\ ConcRest

SpecFetch   == InitFetch /\ [][NextFetch]_vars
SpecKeys    == InitKeys /\ [][NextKeys]_vars
SpecCache   == InitCache /\ [][NextCache]_vars
SpecHandler == InitHandler /\ [][NextHandler]_vars
SpecInvalidate == InitInvalidate /\ [][NextInvalidate]_vars
SpecServe   == InitServe /\ [][NextServe]_vars
SpecConc    == InitConc /\ [][NextConc]_vars
SpecEnrich  == InitEnrich /\ [][NextEnrich]_vars
SpecHero      == InitHero /\ [][NextHero]_vars
SpecHeroFair  == InitHeroFair /\ [][NextHero]_vars /\ HeroFairness
SpecHeroOrder == InitHeroOrder /\ [][NextHeroOrder]_vars
SpecMetrics     == InitMetrics /\ [][NextMetrics]_vars
SpecMetricsConc == InitMetrics /\ [][NextMetricsConc]_vars
SpecTrend       == InitMetrics /\ [][NextTrend]_vars
SpecUptime      == InitUptime /\ [][NextUptime]_vars
SpecMatch       == InitMatch /\ [][NextMatch]_vars
SpecRoute       == InitRoute /\ [][NextRoute]_vars
SpecUnconfigured == InitUnconfigured /\ [][NextUnconfigured]_vars
SpecKeyOf       == InitKeyOf /\ [][NextKeyOf]_vars
SpecTTL         == InitTTL /\ [][NextTTL]_vars
SpecPage        == InitPage /\ [][NextPage]_vars
SpecAuth        == InitAuth /\ [][NextAuth]_vars

(***************************************************************************)
(* Properties of Client.Fetch (checked under SpecFetch)                    *)
(***************************************************************************)

\* An attempt on which the upstream succeeds: it answers 200 OK and its body
\* arrives whole. Every other outcome is a failed attempt.
UpstreamOK(o) == o.kind = "resp" /\ o.status = 200

Is2xx(status) == status >= 200 /\ status < 300

\* C2: with a budget of R = retries attempts, Fetch makes an attempt only
\* while no attempt has succeeded and fewer than R have been made; when the
\* first k < R attempts fail (by whatever kind of failure) and attempt k+1
\* succeeds, it returns that attempt's body having made exactly k+1 attempts;
\* when R attempts in a row fail it returns the exhausted-retries error
\* having made exactly R attempts, never an (R+1)-th.
FetchRetryBudget ==
    LET n == Len(outcomes)
    IN  /\ n <= retries
        /\ \A i \in 1 .. n - 1 : ~ UpstreamOK(outcomes[i])
        /\ (fetchPc = "loop" /\ n > 0) => ~ UpstreamOK(outcomes[n])
        /\ fetchPc = "done" =>
              /\ n >= 1
              /\ IF UpstreamOK(outcomes[n])
                 THEN /\ fetchRet.err = "nil"
                      /\ fetchRet.body = outcomes[n].body
                 ELSE /\ n = retries
                      /\ fetchRet.err = "all retries failed"
                      /\ fetchRet.body = "nil"

\* Two failures of different kinds, then a success on the third attempt.
FetchRetryBudgetWitness ==
    /\ fetchPc = "done"
    /\ Len(outcomes) = retries
    /\ outcomes[1].kind = "transport"
    /\ outcomes[2].kind = "resp" /\ outcomes[2].status = 500
    /\ UpstreamOK(outcomes[3])
    /\ fetchRet.err = "nil"

\* C3: after every failed attempt i < R, whatever the kind of failure, Fetch
\* sleeps retryDelay * 2^(i-1) before attempt i+1 (1s, then 2s); it sleeps
\* at no other time: not before attempt 1, not after attempt R.
FetchBackoffAfterEveryFailure ==
    LET failedBeforeLast ==
            {i \in 1 .. Len(outcomes) : ~ UpstreamOK(outcomes[i]) /\ i < retries}
    IN  /\ \A i \in failedBeforeLast :
              \E j \in 1 .. Len(slept) :
                 slept[j] = [after |-> i, dur |-> retryDelay * 2 ^ (i - 1)]
        /\ \A j \in 1 .. Len(slept) : slept[j].after \in failedBeforeLast
        /\ Len(slept) = Cardinality(failedBeforeLast)

\* C4: Fetch returns either the whole body of a successful attempt with a nil
\* error, or a nil body with the one error that wraps the error of the last
\* attempt made; never data together with an error, never the data of a
\* failed attempt.
FetchDataXorError ==
    fetchPc = "done" =>
        LET last == outcomes[Len(outcomes)]
        IN  \/ /\ fetchRet.err = "nil"
               /\ fetchRet.wrapped = NoErr
               /\ UpstreamOK(last)
               /\ fetchRet.body = last.body
               /\ fetchRet.body \in Bodies
            \/ /\ fetchRet.err = "all retries failed"
               /\ fetchRet.body = "nil"
               /\ ~ UpstreamOK(last)
               /\ fetchRet.wrapped # NoErr
               /\ fetchRet.wrapped = ErrOf(last)

\* The budget is spent on three different failures; the error returned wraps
\* the third one.
FetchDataXorErrorWitness ==
    /\ fetchPc = "done"
    /\ fetchRet.body = "nil"
    /\ outcomes[1].kind = "resp" /\ outcomes[1].status = 403
    /\ outcomes[2].kind = "transport"
    /\ outcomes[3].kind = "readErr"
    /\ fetchRet.wrapped = [e |-> "read", status |-> 0]

\* C5: every response with a 2xx status is a success (its body is returned
\* with a nil error and no further attempt is made), and every response with
\* a non-2xx status is a retryable failure (no data is returned from it, and
\* the loop goes on while the budget lasts).
FetchEvery2xxSucceeds ==
    \A i \in 1 .. Len(outcomes) :
        outcomes[i].kind = "resp" =>
            IF Is2xx(outcomes[i].status)
            THEN /\ i = Len(outcomes)
                 /\ fetchPc = "done"
                 /\ fetchRet.err = "nil"
                 /\ fetchRet.body = outcomes[i].body
            ELSE /\ lastErr # NoErr
                 /\ (i = Len(outcomes) /\ fetchPc = "done") =>
                        (i = retries /\ fetchRet.body = "nil")

(***************************************************************************)
(* Properties of TMDBService.getNextKey (checked under SpecKeys)           *)
(***************************************************************************)

\* How many of the completed calls returned key k.
TimesReturned(k) == Cardinality({j \in 1 .. Len(returned) : returned[j] = k})

\* C6: with a pool of n > 0 keys, under every interleaving of the callers,
\* the cursor values the calls observe are 0, 1, 2, ... in the order of the
\* atomic adds (no value is observed twice, the cursor only grows, and it
\* stands at the number of calls made); and once the m calls made have all
\* returned, key k has been returned as often as k-1 occurs among
\* 0 .. m-1 modulo n, which is floor(m/n) or ceil(m/n) times.
KeyRotationEven ==
    Len(apiKeys) > 0 =>
        LET n == Len(apiKeys)
            m == Len(observed)
        IN  /\ observed = [j \in 1 .. m |-> j - 1]
            /\ keyIndex = m
            /\ \A c \in Callers : callerPc[c] = "added" => callerIdx[c] < m
            /\ \A c, d \in Callers :
                  (c # d /\ callerPc[c] = "added" /\ callerPc[d] = "added")
                     => callerIdx[c] # callerIdx[d]
            /\ (\A c \in Callers : callerPc[c] = "idle") =>
                  /\ Len(returned) = m
                  /\ \A k \in 1 .. n :
                        /\ TimesReturned(k) =
                              Cardinality({x \in 0 .. m - 1 : x % n = k - 1})
                        /\ TimesReturned(k) \in {m \div n, (m + n - 1) \div n}

\* Four calls over three keys by overlapping callers: the call that took
\* cursor value 1 returned before the one that took 0, and key 1 has been
\* returned twice.
KeyRotationEvenWitness ==
    /\ Len(apiKeys) = 3
    /\ Len(returned) = 4
    /\ \A c \in Callers : callerPc[c] = "idle"
    /\ returned[1] = 2
    /\ returned[2] = 1
    /\ TimesReturned(1) = 2

(***************************************************************************)
(* Properties of Cache (checked under SpecCache)                           *)
(***************************************************************************)

\* C7: a Get of key K that the store answers, made while the value V of the
\* last Set of K is still in place (no expiry, no other write since) and
\* with a destination of V's type, returns V without error; a Get of K made
\* after Delete(K) and before any other write of K reports a cache miss.
CacheRoundTrip ==
    (lastOp.op = "get" /\ lastOp.up) =>
        LET w == written[lastOp.key]
        IN  /\ (w.st = "set" /\ w.typ = lastOp.typ) =>
                  /\ lastOp.err = "nil"
                  /\ lastOp.val = w.val
            /\ w.st = "deleted" => IsCacheMiss(lastOp.err)

\* C8: a DeletePattern(p) that returns no error, called when exactly the
\* keys M match p, removes the entries of M, returns the size of M, and
\* leaves every other key as it was; when no key matches and the store
\* answers the KEYS call it returns 0 without error; a call that returns an
\* error has removed nothing.
DeletePatternExact ==
    [][ lastOp'.op = "delpattern" =>
          LET M == KeysMatching(store, lastOp'.key)
          IN  /\ lastOp'.err = "nil" =>
                    /\ lastOp'.n = Cardinality(M)
                    /\ \A k \in DOMAIN store :
                          store'[k] = IF k \in M THEN Absent ELSE store[k]
              /\ lastOp'.err # "nil" => (store' = store /\ lastOp'.n = 0)
              /\ M = {} => lastOp'.err \in {"nil", ErrRedisKeys}
      ]_vars

\* DeletePattern("douban:detail:*") removed the two detail entries and left
\* the movies entry in place.
DeletePatternExactWitness ==
    /\ lastOp.op = "delpattern"
    /\ lastOp.key = Key("detail", "*")
    /\ lastOp.err = "nil"
    /\ lastOp.n = 2
    /\ store[moviesCacheKey] # Absent
    /\ store[detailCacheKey("1")] = Absent
    /\ store[detailCacheKey("2")] = Absent

\* C9: Get reports the miss (IsCacheMiss of its error is true) exactly when
\* the store answers that the key is absent; when the store does not answer,
\* and when the payload under the key does not decode into the destination,
\* Get returns an error for which IsCacheMiss is false.
CacheMissDistinguished ==
    lastOp.op = "get" =>
        LET absent == store[lastOp.key] = Absent
        IN  /\ IsCacheMiss(lastOp.err) <=> (lastOp.up /\ absent)
            /\ ~ lastOp.up => (lastOp.err = ErrRedisGet /\ ~ IsCacheMiss(lastOp.err))
            /\ (lastOp.up /\ store[lastOp.key] = Garbage) =>
                  (lastOp.err = ErrUnmarshal /\ ~ IsCacheMiss(lastOp.err))
            /\ (lastOp.up /\ ~ absent) => lastOp.err \in {"nil", ErrUnmarshal}

\* A Get of a key whose payload is not JSON returned the unmarshal error.
CacheMissDistinguishedWitness ==
    /\ lastOp.op = "get"
    /\ lastOp.up
    /\ store[lastOp.key] = Garbage
    /\ lastOp.err = ErrUnmarshal

(***************************************************************************)
(* Properties of the data handlers (checked under SpecHandler)             *)
(***************************************************************************)

\* The entry sub-task i of handler h leaves in the result list, given what
\* its SearchSubjects returned: the i-th category's name with the subjects
\* fetched, or with an explicit empty list when the fetch failed.
ExpectedEntry(h, i, o) ==
    [name |-> Categories(h)[i].name,
     data |-> IF o.st = "ok" THEN o.subjects ELSE Slice(<<>>)]

\* C1: in a fan-out handler (movies, tv, latest, unfiltered new) with N
\* sub-tasks, in every order of completion and for every set of failing
\* sub-tasks: while sub-tasks are running, the slot of every finished one
\* holds its own entry and the slot of every running one is still untouched
\* (no sub-task writes another's slot); the list answered has exactly N
\* entries, entry i named after the i-th category and holding the subjects
\* sub-task i fetched, or an explicit empty list when it failed.
FanOutSlotsInOrder ==
    reqHandler \in FanOutHandlers =>
        LET N == Len(SubTasks(reqHandler))
        IN  /\ reqPc = "wait" =>
                  /\ Len(results) = N
                  /\ \A i \in 1 .. N :
                        results[i] =
                           IF taskOutcome[i] = Pending
                           THEN [name |-> "", data |-> NilSlice]
                           ELSE ExpectedEntry(reqHandler, i, taskOutcome[i])
            /\ (reqPc = "responded" /\ resp.source # "redis-cache") =>
                  /\ ~ resp.data.nil
                  /\ Len(resp.data.elems) = N
                  /\ \A i \in 1 .. N :
                        resp.data.elems[i] =
                           ExpectedEntry(reqHandler, i, taskOutcome[i])

\* A fan-out answered with its first sub-task failed and its last two
\* succeeded: an explicit empty list in slot 1, subjects in slot 3.
FanOutSlotsInOrderWitness ==
    /\ reqHandler = "movies"
    /\ reqPc = "responded"
    /\ resp.source = "fresh"
    /\ Len(taskOutcome) >= 3
    /\ taskOutcome[1].st = "err"
    /\ taskOutcome[2].st = "ok"
    /\ taskOutcome[3].st = "ok"
    /\ resp.data.elems[1].data = Slice(<<>>)
    /\ resp.data.elems[3].data.elems # <<>>

\* C10: in every data handler, a lookup that returned any error (the miss,
\* the store not answering, a payload that does not decode) never ends the
\* request and is never answered from the cache: the handler computes
\* fresh, and the response is the one the fresh computation alone decides
\* (its status that of the upstream outcome, its data the fresh value),
\* the same whether the write-back succeeded or failed.
HandlersFailOpen ==
    /\ (reqPc \in {"fresh", "wait"}) => (reqLookup # "nil" /\ resp.code = 0)
    /\ (reqPc = "responded" /\ reqLookup # "nil") =>
          IF reqHandler \in FanOutHandlers
          THEN /\ resp.code = 200
               /\ resp.source \in {"fresh", "fresh-data"}
               /\ resp.data = Slice(results)
          ELSE /\ resp.code = FreshCode(reqHandler, primary)
               /\ resp.source \in {"fresh", "fresh-data"}
               /\ resp.data = primary.val
    /\ (reqPc = "responded" /\ reqLookup = "nil") => resp.source = "redis-cache"

\* The lookup found a payload that does not decode, the write-back failed
\* too, and the request was answered 200 with fresh data.
HandlersFailOpenWitness ==
    /\ reqPc = "responded"
    /\ reqLookup = ErrUnmarshal
    /\ setErr
    /\ resp.code = 200
    /\ resp.source = "fresh"

(***************************************************************************)
(* Properties of the invalidation handlers (checked under SpecInvalidate)  *)
(***************************************************************************)

\* C11: no error of the cache ends a request: every invalidation handler,
\* by key or by pattern, answers 200 whether its cache call failed or not.
InvalidationsFailOpen ==
    invResp.handler # "none" => invResp.code = 200

(***************************************************************************)
(* Properties of the read path's write-back (checked under SpecHandler)    *)
(***************************************************************************)

\* C12: in every data handler (GetNew with filters included), a request
\* that was not answered from the cache and computed a fresh result with
\* success has, by the time it responds, called cache.Set for the key it
\* looked up with the value it answers, which is then in place unless the
\* Set failed; and a lookup made while a value written this way is still
\* in place (no expiry, no other write) is a cache hit.
WriteBackBeforeResponding ==
    LET k == HandlerKey(reqHandler)
    IN  /\ (reqPc = "responded" /\ resp.source # "redis-cache" /\ resp.code = 200
                /\ lastOp.op # "none") =>
              /\ lastOp.op = "set"
              /\ lastOp.key = k
              /\ lastOp.err = "nil" =>
                    /\ store[k] # Absent
                    /\ written[k] = [st |-> "set", typ |-> HandlerType(reqHandler),
                                     val |-> resp.data]
        /\ (lastOp.op = "get" /\ lastOp.up /\ written[lastOp.key].st = "set") =>
              lastOp.err = "nil"

(***************************************************************************)
(* Properties of the enrichment (checked under SpecEnrich)                 *)
(***************************************************************************)

\* The field of the fresh response that the goroutine of task t fills.
EnrichField(t) ==
    CASE t = "suggestResult"  -> enResp.data.suggest
      [] t = "advancedResult" -> enResp.data.advanced
      [] OTHER                -> enResp.data[t]

IsEmptyField(t, v) == IF t = "cover" THEN v = "" ELSE Len(v.elems) = 0

\* C13: partial failures never produce a user-visible error. A response of
\* GetDetail (once the abstract was obtained) or of Search that was computed
\* fresh is a success whatever subset of the enrichment fetches failed; the
\* field of a failed fetch is empty, and every field holds what its own
\* goroutine made of its own fetch, whatever the siblings' fetches came to and
\* in whatever order the goroutines finished.
EnrichPartialFailures ==
    (enPc = "responded" /\ enResp.source = "fresh") =>
        /\ enResp.code = 200
        /\ \A t \in EnrichTasks(enReq.handler) :
            /\ (enDone[t].st = "done" /\ ~ enDone[t].ok)
                  => IsEmptyField(t, EnrichField(t))
            /\ EnrichField(t) = TaskResult(enReq, t, enDone[t], ZeroLocal(t))

\* GetDetail answered fresh after its photos fetch failed while the cover,
\* the comments and more recommendations than are kept were obtained.
EnrichPartialFailuresWitness ==
    /\ enPc = "responded"
    /\ enResp.source = "fresh"
    /\ enReq.handler = "detail"
    /\ enDone["photos"] = Called(FALSE, EmptySlice)
    /\ enDone["cover"].ok /\ enResp.data.cover = "i1"
    /\ enResp.data.comments = Slice(<<Comment1>>)
    /\ Len(enDone["recommendations"].ret.elems) > MaxRecommendations
    /\ Len(enResp.data.recommendations.elems) = MaxRecommendations

(***************************************************************************)
(* Properties of GetHero (checked under SpecHero, SpecHeroFair,            *)
(* SpecHeroOrder)                                                          *)
(***************************************************************************)

HeroUnitsDeliver ==
    /\ [](heroPc = "units" /\ reqExpired => \A i \in 1 .. Len(units) : CtxDone(i))
    /\ \A i \in HeroUnitIds :
          (heroPc = "units" /\ Len(units) >= i /\ CtxDone(i))
             ~> (Len(units) >= i /\ units[i].pc = "sent")
    /\ (heroPc = "units") ~> (heroPc = "responded")

\* GetHero answered while the abstract fetch of a unit whose own timer had
\* fired had not returned.
HeroUnitsDeliverWitness ==
    /\ heroPc = "responded"
    /\ heroResp.source = "fresh"
    /\ \E i \in 1 .. Len(units) :
          units[i].expired /\ units[i].pc = "sent" /\ units[i].detailInner = "running"

\* The subjects of the input that are not among the selected ones.
HeroLeftOut == {heroInput[j] : j \in 1 .. Len(heroInput)} \ {subjects[i] : i \in 1 .. Len(subjects)}

\* C15: the hero list is in the order of the rating-sorted input, whatever
\* the order in which the units finish. The selected subjects are
\* min(maxHeroCount, n) different subjects of the input, in descending
\* rating, none left out rated higher than one selected; every slot filled
\* so far holds the entry built from the subject of its position; and the
\* list answered holds, at each position i, the entry built from subject i.
HeroOrderOfInput ==
    /\ (heroPc = "units" \/ (heroPc = "responded" /\ heroResp.source = "fresh")) =>
        /\ Len(subjects) = Min(maxHeroCount, Len(heroInput))
        /\ \A i \in 1 .. Len(subjects) :
              \E j \in 1 .. Len(heroInput) : subjects[i] = heroInput[j]
        /\ \A i, j \in 1 .. Len(subjects) :
              /\ i # j => subjects[i].id # subjects[j].id
              /\ i < j => parseFloat(subjects[i].rate) >= parseFloat(subjects[j].rate)
        /\ \A m \in HeroLeftOut : \A i \in 1 .. Len(subjects) :
              parseFloat(m.rate) <= parseFloat(subjects[i].rate)
        /\ \A i \in 1 .. Len(heroResults) :
              heroResults[i] # NilHero => heroResults[i].id = subjects[i].id
    /\ (heroPc = "responded" /\ heroResp.source = "fresh") =>
        /\ Len(heroResp.data.elems) = Len(subjects)
        /\ \A i \in 1 .. Len(subjects) : heroResp.data.elems[i].id = subjects[i].id

\* More subjects than are kept came in; the unit of the last selected
\* subject finished first and its entry is in the last slot, the first slot
\* still empty while the entry of the second subject is waiting in the
\* channel.
HeroOrderOfInputWitness ==
    /\ heroPc = "units"
    /\ Len(heroInput) > maxHeroCount
    /\ Len(subjects) = maxHeroCount
    /\ heroResults[maxHeroCount] # NilHero
    /\ heroResults[1] = NilHero
    /\ resultChan # <<>>
    /\ Head(resultChan).index = 2

(***************************************************************************)
(* Properties of Metrics (checked under SpecMetrics, SpecMetricsConc)      *)
(***************************************************************************)

RECURSIVE SumOf(_)
SumOf(ls) == IF ls = <<>> THEN 0 ELSE Head(ls) + SumOf(Tail(ls))
MinOf(ls) == CHOOSE x \in {ls[i] : i \in 1 .. Len(ls)} : \A i \in 1 .. Len(ls) : x <= ls[i]
MaxOf(ls) == CHOOSE x \in {ls[i] : i \in 1 .. Len(ls)} : \A i \in 1 .. Len(ls) : x >= ls[i]

\* C17: after the calls with latencies l1..ln were recorded for a path,
\* GetAPIStats of the path reports total n, average (l1+...+ln)/n, minimum
\* min(l1..ln) and maximum max(l1..ln).
StatsOfRecordedLatencies ==
    (metricsRet.op = "stats" /\ seen[metricsRet.stats.path] # <<>>) =>
        LET st == metricsRet.stats
            ls == seen[st.path]
        IN  /\ st.total = Len(ls)
            /\ st.avg[1] * Len(ls) = SumOf(ls) * st.avg[2]
            /\ st.min = MinOf(ls)
            /\ st.max = MaxOf(ls)

\* C18: a RecordAPICall is atomic to concurrent readers. What GetAPIStats
\* returns counts every call it counts once as a success or an error and
\* once as a hit or a miss, with its latency bounds present; what
\* GetOverallStats returns has the global total equal to the calls of the
\* paths it lists.
RecordAtomicToReaders ==
    /\ metricsRet.op = "stats" =>
          LET st == metricsRet.stats
          IN  /\ st.total = st.success + st.errors
              /\ st.total = st.hits + st.misses
              /\ st.total > 0 => (st.min > 0 /\ st.max > 0)
    /\ metricsRet.op = "overall" =>
          metricsRet.total =
              SumOf([i \in 1 .. Len(metricsRet.top) |-> metricsRet.top[i].total])

\* The counter of a path, as GetAPIStats parses it.
PathCount(db, path, field) == ParseField(db.hash[pathKey(path)], field)

\* C19: a recorded call for path P with cacheHit raises P's cache-hit
\* counter by exactly 1 and leaves P's cache-miss counter unchanged; without
\* cacheHit it raises the cache-miss counter by exactly 1 and leaves the
\* cache-hit counter unchanged; either way the hash of every other path
\* stays as it was.
RecordCountsHitOrMiss ==
    [][(metricsRet'.op = "record" /\ mdb' # mdb) =>
          LET P   == metricsRet'.path
              hit == metricsRet'.cacheHit
          IN  /\ PathCount(mdb', P, "cache_hits")
                    = PathCount(mdb, P, "cache_hits") + (IF hit THEN 1 ELSE 0)
              /\ PathCount(mdb', P, "cache_misses")
                    = PathCount(mdb, P, "cache_misses") + (IF hit THEN 0 ELSE 1)
              /\ \A Q \in MetricPaths \ {P} :
                    mdb'.hash[pathKey(Q)] = mdb.hash[pathKey(Q)]]_vars

\* A hit was just recorded for /a, which had one miss counted, while /b
\* has a call of its own counted.
RecordCountsHitOrMissWitness ==
    /\ metricsRet.op = "record"
    /\ metricsRet.path = "/a" /\ metricsRet.cacheHit /\ metricsRet.ok
    /\ PathCount(mdb, "/a", "cache_hits") = 1
    /\ PathCount(mdb, "/a", "cache_misses") = 1
    /\ PathCount(mdb, "/b", "total") = 1

\* The place of path p in the order SMembers listed the paths.
PlaceOf(enumerated, p) == CHOOSE i \in 1 .. Len(enumerated) : enumerated[i] = p

\* C20: the top endpoints are at most TopCount paths, each with at least
\* one call, in descending order of calls, paths of equal calls in the order
\* in which they were enumerated.
TopEndpointsRanked ==
    metricsRet.op = "overall" =>
        LET top == metricsRet.top
        IN  /\ Len(top) <= TopCount
            /\ \A i \in 1 .. Len(top) : top[i].total >= 1
            /\ \A i, j \in 1 .. Len(top) :
                  i < j =>
                     /\ top[i].total >= top[j].total
                     /\ top[i].total = top[j].total =>
                           PlaceOf(metricsRet.enumerated, top[i].path)
                              < PlaceOf(metricsRet.enumerated, top[j].path)

(***************************************************************************)
(* Properties of getDailyTrend (checked under SpecTrend)                   *)
(***************************************************************************)

\* C21: the daily trend returned has exactly trendDays entries, one for each
\* of the last trendDays calendar days, oldest first, the last of them a day
\* the call ran in; an entry computed from an empty daily hash has zero
\* calls and a zero average.
DailyTrendSevenDays ==
    trendLoop.pc = "done" =>
        /\ Len(trend) = trendDays
        /\ \A k \in 1 .. Len(trend) :
              /\ trend[k].date = trend[Len(trend)].date - (Len(trend) - k)
              /\ trend[k].result = EmptyHash =>
                    (trend[k].total = 0 /\ trend[k].avg = <<0, 1>>)
        /\ trend # <<>> => trend[Len(trend)].date \in trendLoop.startedAt .. clock

(***************************************************************************)
(* Properties of findBestMatch (checked under SpecMatch)                   *)
(***************************************************************************)

\* The candidate findBestMatch returned, and the places of the candidates
\* that have an image.
Returned == matchArgs.results[matchLoop.bestMatch]
WithImage == {i \in 1 .. Len(matchArgs.results) : matchArgs.results[i].backdrop_path # <<>>}
ScoreAt(i) == Score(matchArgs.results[i], matchArgs.searchTitle, matchArgs.year)

\* C22: findBestMatch never returns a candidate whose backdrop path is
\* empty, and returns none for an empty list and for a list in which every
\* candidate lacks an image.
MatchNeverWithoutImage ==
    matchLoop.pc = "done" =>
        /\ matchLoop.bestMatch # 0 => Returned.backdrop_path # <<>>
        /\ WithImage = {} => matchLoop.bestMatch = 0

\* The second candidate was returned although the first, which has no
\* image, scores higher.
MatchNeverWithoutImageWitness ==
    /\ matchLoop.pc = "done"
    /\ Len(matchArgs.results) = 2
    /\ matchLoop.bestMatch = 2
    /\ matchArgs.results[1].backdrop_path = <<>>
    /\ ScoreAt(1) > ScoreAt(2)

\* C23 as stated: among the candidates with an image the one of greatest
\* score is returned, the first of them when several share it, the list is
\* left as it was, and a candidate is returned whenever some candidate has
\* an image.
MatchGreatestScore ==
    matchLoop.pc = "done" =>
        /\ matchArgs.results = matchGiven
        /\ IF WithImage = {} THEN matchLoop.bestMatch = 0
           ELSE /\ matchLoop.bestMatch \in WithImage
                /\ \A j \in WithImage :
                      /\ ScoreAt(j) <= ScoreAt(matchLoop.bestMatch)
                      /\ j < matchLoop.bestMatch => ScoreAt(j) < ScoreAt(matchLoop.bestMatch)

\* The places of the candidates that have an image and a score above 0.
Eligible == {i \in WithImage : ScoreAt(i) > 0}

\* C23 amended: among the candidates with an image and a score above 0 the
\* one of greatest score is returned, the first of them when several share
\* it, and the list is left as it was; none is returned when no candidate
\* with an image scores above 0.
MatchGreatestPositiveScore ==
    matchLoop.pc = "done" =>
        /\ matchArgs.results = matchGiven
        /\ IF Eligible = {} THEN matchLoop.bestMatch = 0
           ELSE /\ matchLoop.bestMatch \in Eligible
                /\ \A j \in Eligible :
                      /\ ScoreAt(j) <= ScoreAt(matchLoop.bestMatch)
                      /\ j < matchLoop.bestMatch => ScoreAt(j) < ScoreAt(matchLoop.bestMatch)

\* Two different candidates share the greatest score and the first was
\* returned.
MatchGreatestPositiveScoreWitness ==
    /\ matchLoop.pc = "done"
    /\ Len(matchArgs.results) = 2
    /\ matchArgs.results[1] # matchArgs.results[2]
    /\ ScoreAt(1) = ScoreAt(2)
    /\ ScoreAt(1) > 0
    /\ matchLoop.bestMatch = 1

\* The candidate the last pass of the loop scored.
Scored == matchArgs.results[matchLoop.i - 1]
JustScored == matchLoop.pc = "loop" /\ matchLoop.i > 1 /\ ~ matchLoop.last.skipped

\* The year a four-digit string names.
YearValue(s) ==
    1000 * DigitOf(s[1]) + 100 * DigitOf(s[2]) + 10 * DigitOf(s[3]) + DigitOf(s[4])

\* C24: the year term is 100 when the target year and the candidate's
\* release year are both known and equal, 50 when both are known and differ
\* by exactly 1, and 0 when they differ by 2 or more or either is unknown.
MatchYearTerm ==
    JustScored =>
        LET known == matchArgs.year # <<>> /\ Len(Scored.release_date) >= 4
            diff  == YearValue(Scored.release_date) - YearValue(matchArgs.year)
        IN  matchLoop.last.year =
               IF ~ known THEN 0
               ELSE IF diff = 0 THEN 100
               ELSE IF diff = 1 \/ diff = 0 - 1 THEN 50
               ELSE 0

\* A candidate released the year before the target year got 50.
MatchYearTermWitness ==
    /\ JustScored
    /\ matchArgs.year = Y2020
    /\ Scored.release_date = Date(Y2019)
    /\ matchLoop.last.year = 50

\* Whether a and b are the same but for the case of their letters, and
\* whether sub occurs in s but for the case of the letters.
SameLetter(c, d) == c = d \/ {c, d} \in {{"a", "A"}, {"b", "B"}}
EqualFold(a, b) == Len(a) = Len(b) /\ \A k \in 1 .. Len(a) : SameLetter(a[k], b[k])
ContainsFold(s, sub) ==
    \E k \in 0 .. Len(s) - Len(sub) : EqualFold(SubSeq(s, k + 1, k + Len(sub)), sub)
ComparedTitle(c) == IF c.original_title # <<>> THEN c.original_title ELSE c.title

\* C25: the title term compares the target title, case ignored, with the
\* candidate's original title when that is not empty and else with its
\* display title: 50 when they are equal, 25 when they are not and one
\* occurs in the other, 0 otherwise.
MatchTitleTerm ==
    JustScored =>
        LET t == ComparedTitle(Scored)
            q == matchArgs.searchTitle
        IN  matchLoop.last.title =
               IF EqualFold(t, q) THEN 50
               ELSE IF ContainsFold(t, q) \/ ContainsFold(q, t) THEN 25
               ELSE 0

\* A candidate whose original title is the target in other case, and whose
\* display title is another, got 50.
MatchTitleTermWitness ==
    /\ JustScored
    /\ Scored.original_title = <<"A", "B">>
    /\ Scored.title = <<"x">>
    /\ matchArgs.searchTitle = <<"a", "B">>
    /\ matchLoop.last.title = 50

\* The candidate at place i has an image and matches the target title and
\* the target year exactly; the one at place i has an image, matches the
\* title only as a substring and is two years off.
ExactAt(i) ==
    LET c == matchArgs.results[i]
    IN  /\ i \in WithImage
        /\ EqualFold(ComparedTitle(c), matchArgs.searchTitle)
        /\ matchArgs.year # <<>> /\ Len(c.release_date) >= 4
        /\ YearValue(c.release_date) = YearValue(matchArgs.year)
LooseAt(i) ==
    LET c == matchArgs.results[i]
        t == ComparedTitle(c)
        q == matchArgs.searchTitle
    IN  /\ i \in WithImage
        /\ ~ EqualFold(t, q)
        /\ ContainsFold(t, q) \/ ContainsFold(q, t)
        /\ matchArgs.year # <<>> /\ Len(c.release_date) >= 4
        /\ abs(YearValue(c.release_date) - YearValue(matchArgs.year)) = 2

\* C26: a candidate with an image that matches title and year exactly
\* scores strictly higher than one with an image that matches the title as
\* a substring and is two years off, and the latter is never returned when
\* the former is in the list.
MatchExactBeatsLoose ==
    matchLoop.pc = "done" =>
        \A a, b \in 1 .. Len(matchArgs.results) :
            (ExactAt(a) /\ LooseAt(b)) =>
                (ScoreAt(a) > ScoreAt(b) /\ matchLoop.bestMatch # b)

\* The loose candidate, with the best rating and the greatest popularity,
\* came first and the exact one, without votes, was returned.
MatchExactBeatsLooseWitness ==
    /\ matchLoop.pc = "done"
    /\ Len(matchArgs.results) = 2
    /\ LooseAt(1)
    /\ ExactAt(2)
    /\ QualityTerm(matchArgs.results[1]) > QualityTerm(matchArgs.results[2])
    /\ matchLoop.bestMatch = 2

(***************************************************************************)
(* Properties of the requests of Fetch (checked under SpecRoute)           *)
(***************************************************************************)

\* Whether host is the upstream domain or a host below it.
DoubanCom == <<"d", "o", "u", "b", "a", "n", ".", "c", "o", "m">>
IsUpstreamHost(host) ==
    \/ host = DoubanCom
    \/ /\ Len(host) > Len(DoubanCom) + 1
       /\ SubSeq(host, Len(host) - Len(DoubanCom), Len(host)) = <<".">> \o DoubanCom

\* C27: every attempt decides its routing by itself. Its request goes to a
\* proxy base followed by the path and query of the target if and only if
\* the pool is not empty and the target host is the upstream domain, and to
\* the target URL itself otherwise; the User-Agent, Referer and Accept
\* headers are set on the request if and only if it is not routed through a
\* proxy.
FetchRoutesPerAttempt ==
    \A k \in 1 .. Len(requests) :
        LET r == requests[k]
        IN  /\ r.useProxy <=> (Len(proxies) > 0 /\ IsUpstreamHost(targetURL.host))
            /\ IF r.useProxy
               THEN \E j \in 1 .. Len(proxies) : r.url = <<proxies[j], targetURL.uri>>
               ELSE r.url = targetURL
            /\ r.built =>
                  \A h \in {"User-Agent", "Referer", "Accept"} :
                      h \in DOMAIN r.header <=> ~ r.useProxy

\* Two attempts of one call went through different proxies, the second
\* request built without headers.
FetchRoutesPerAttemptWitness ==
    /\ Len(requests) >= 2
    /\ requests[1].useProxy /\ requests[2].useProxy
    /\ requests[1].url # requests[2].url
    /\ requests[2].built
    /\ requests[2].header = NoHeaders

(***************************************************************************)
(* Properties of the empty key pool (checked under SpecUnconfigured)       *)
(***************************************************************************)

\* C28: with an empty key pool IsConfigured is false; getNextKey returns no
\* key and leaves the cursor where it was; SearchMovieBackdrop returns its
\* error and sends no request; and GetHero starts no backdrop lookup and
\* gives every entry its cover as horizontal poster.
EmptyPoolUnconfigured ==
    Len(apiKeys) = 0 =>
        /\ ~ IsConfigured
        /\ keyIndex = 0
        /\ \A k \in 1 .. Len(returned) : returned[k] = NoKey
        /\ backdropRet \in {NoBackdrop, ErrNotConfigured}
        /\ tmdbRequests = <<>>
        /\ \A i \in 1 .. Len(units) :
              /\ units[i].pc # "tmdb"
              /\ units[i].tmdbInner = "none"
        /\ \A k \in 1 .. Len(resultChan) :
              resultChan[k].hero.poster_horizontal
                 = getHighQualityPoster(subjects[resultChan[k].index].cover)
        /\ (heroPc = "responded" /\ heroResp.source = "fresh") =>
              \A k \in 1 .. Len(heroResp.data.elems) :
                 heroResp.data.elems[k].poster_horizontal
                    = getHighQualityPoster(subjects[k].cover)

\* With no key, SearchMovieBackdrop was called twice and returned its error,
\* and GetHero answered two entries, detail received for both, the second
\* with its cover as horizontal poster.
EmptyPoolUnconfiguredWitness ==
    /\ Len(apiKeys) = 0
    /\ returned = <<NoKey, NoKey>>
    /\ backdropRet = ErrNotConfigured
    /\ heroPc = "responded"
    /\ heroResp.source = "fresh"
    /\ Len(heroResp.data.elems) = 2
    /\ units[1].sawDetail /\ units[2].sawDetail
    /\ heroResp.data.elems[2].poster_horizontal # NoURL
    /\ heroResp.data.elems[2].poster_horizontal = heroResp.data.elems[2].cover

(***************************************************************************)
(* Properties of the cache keys as strings (checked under SpecKeyOf)       *)
(***************************************************************************)

\* The requests the statement covers: every Search and GetCategory request,
\* and the GetNew requests with a filter.
Covered(r) == r.handler = "new" => hasFilters(r)

\* C29: two requests to the same handler (Search, GetCategory, filtered
\* GetNew) whose parameter tuples differ never get the same cache key, also
\* when a parameter value holds the ":" separator.
KeysUniquePerCombination ==
    builtKeys # NoKeys =>
       ((/\ Covered(keyReqs[1])
         /\ Covered(keyReqs[2])
         /\ keyReqs[1] # keyReqs[2]) => builtKeys[1] # builtKeys[2])

(***************************************************************************)
(* Properties of the expirations (checked under SpecTTL)                   *)
(***************************************************************************)

\* The TTL of each class of data: the configured one for hero, detail,
\* category and search entries, 24 hours for the search tags.
ClassTTL(k) ==
    CASE k = "hero" -> cfg.CacheTTLHero
      [] k = "detail" -> cfg.CacheTTLDetail
      [] k = "category" -> cfg.CacheTTLCategory
      [] k = "search" -> cfg.CacheTTLSearch
      [] k = "tags" -> TagsTTL

\* C30: every cache entry is written with the TTL of its class: hero entries
\* with the hero TTL, detail entries with the detail TTL, category entries
\* with the category TTL, search results with the search TTL, and search
\* tags with 24 hours.
EntryTTLOfClass ==
    \A k \in Classes : expires[k] # NoEntry => expires[k] = <<ClassTTL(k)>>

(***************************************************************************)
(* Properties of the write-back (checked under SpecHandler)                *)
(***************************************************************************)

\* Every sub-task of the fan-out at hand ended with an error.
AllSubFetchesFailed ==
    /\ Len(taskOutcome) > 0
    /\ \A i \in 1 .. Len(taskOutcome) : taskOutcome[i].st = "err"

\* C31: when every sub-fetch of a fan-out (GetMovies, GetTV, GetLatest,
\* unfiltered GetNew) failed, the handler's answer leaves the entry of its
\* cache key as it was: nothing is written.
FanOutAllFailedWritesNothing ==
    [][(reqPc = "wait" /\ reqPc' = "responded" /\ AllSubFetchesFailed)
          => store'[HandlerKey(reqHandler)] = store[HandlerKey(reqHandler)]]_vars

(***************************************************************************)
(* Properties of the pagination (checked under SpecPage)                   *)
(***************************************************************************)

\* C32: for GetCategory and GetNew with filters, the total answered for
\* page p of size s is p*s + s when the upstream gave a full page of s
\* subjects and (p-1)*s + n when it gave n < s of them; hasMore is true
\* exactly when the page is full.
PaginationTotals ==
    pgResp.kind = "fresh" /\ pgResp.count <= pgReq.size =>
       LET p == pgReq.page
           s == pgReq.size
           n == pgResp.count
       IN /\ n = s => pgResp.total = p * s + s
          /\ n < s => pgResp.total = (p - 1) * s + n
          /\ pgResp.hasMore <=> n = s

\* C40: the pagination GetCategory answers from the cache is the pagination
\* of the fresh response that wrote the entry.
CachedPaginationAsFresh ==
    pgResp.kind = "cache" =>
       /\ pgResp.total = pgFresh.total
       /\ pgResp.hasMore = pgFresh.hasMore

(***************************************************************************)
(* Properties of the admin routes (checked under SpecAuth)                 *)
(***************************************************************************)

\* The token a request presents is the configured key: without an
\* Authorization header the api_key parameter is the key, with one the
\* header is the key after nothing but scheme prefixes.
PresentsKey(req, key) ==
    IF req.header = <<>>
    THEN req.query = key
    ELSE \E prefix \in {<<>>, Bearer, ApiKey, Bearer \o ApiKey} : req.header = prefix \o key

PresentsNothing(req) == req.header = <<>> /\ req.query = <<>>

\* C33: with a non-empty admin key configured, an admin handler runs only
\* for a request that presents the key; a request without a token is
\* answered 401 and one with a wrong token 403, the handler not running in
\* either case. With an empty configured key every request passes.
AdminOnlyWithKey ==
    authReq.route \in AdminRoutes =>
       /\ authKey = <<>> => authResp.ran
       /\ authKey # <<>> =>
             /\ authResp.ran => PresentsKey(authReq, authKey)
             /\ PresentsNothing(authReq) => authResp = [status |-> 401, ran |-> FALSE]
             /\ (~ PresentsNothing(authReq) /\ ~ PresentsKey(authReq, authKey))
                   => authResp = [status |-> 403, ran |-> FALSE]

\* With the key "k" configured, the analytics were asked to be reset under
\* "Bearer x" and the request was answered 403 without the handler running.
AdminOnlyWithKeyWitness ==
    /\ authKey = <<"k">>
    /\ authReq = [route |-> "DELETE /analytics", header |-> Bearer \o <<"x">>, query |-> <<"k">>]
    /\ authResp = [status |-> 403, ran |-> FALSE]

(***************************************************************************)
(* Properties of GetHero's goroutines (checked under SpecHero)             *)
(***************************************************************************)

\* C34: in GetHero the values of a movie (genres, release year,
\* description, backdrop URL) are not written by an inner fetch goroutine
\* while or after the owning unit reads them: when a unit has built its
\* entry, no inner goroutine of it that assigns those values was still
\* running, also when the unit went on because its deadline fired.
UnitReadsAfterInnerWrites ==
    \A i \in 1 .. Len(units) :
       units[i].pc = "sent" =>
          /\ units[i].detailInner # "running"
          /\ units[i].atBuild # "running"

\* The results unit i has sent so far: those waiting in the channel and the
\* one the collector has placed.
InChan(i) == Cardinality({j \in 1 .. Len(resultChan) : resultChan[j].index = i})
Delivered(i) == InChan(i) + (IF heroResults[i] # NilHero THEN 1 ELSE 0)

CollectionInv ==
    /\ Len(resultChan) <= Len(subjects)
    /\ \A i \in 1 .. Len(units) :
          Delivered(i) = (IF units[i].pc = "sent" THEN 1 ELSE 0)
    /\ chanClosed => \A i \in 1 .. Len(units) : units[i].pc = "sent"

\* C37: in GetHero's result collection every unit sends exactly one result,
\* the channel never holds more than its capacity (the number of units), so
\* no send blocks; the channel is closed once, and only after every unit
\* has sent; nothing is sent on the closed channel; and the collector's
\* loop ends: the handler comes to answer.
HeroCollection ==
    /\ []CollectionInv
    /\ [][chanClosed => (chanClosed' /\ Len(resultChan') <= Len(resultChan))]_vars
    /\ (heroPc = "units") ~> (heroPc = "responded" /\ chanClosed /\ resultChan = <<>>)

\* Both units have sent before the collector took anything: the channel is
\* at its capacity and not closed yet.
HeroCollectionWitness ==
    /\ heroPc = "units"
    /\ Len(units) = 2
    /\ Len(resultChan) = 2
    /\ ~ chanClosed

\* The calls recorded so far for a path, and the sum of a counter over the
\* paths.
RecordedFor(path) == Len(seen[path])
RECURSIVE SumOver(_, _)
SumOver(S, field) ==
    IF S = {} THEN 0
    ELSE LET p == CHOOSE q \in S : TRUE
         IN PathCount(mdb, p, field) + SumOver(S \ {p}, field)

CountsAgree ==
    /\ \A p \in MetricPaths :
          LET st == GetAPIStats(mdb, p)
          IN  /\ st.total = st.success + st.errors
              /\ st.total = st.hits + st.misses
              /\ st.total = RecordedFor(p)
    /\ mdb.counter["metrics:global:total"] = SumOver(MetricPaths, "total")
    /\ mdb.counter["metrics:global:total"] = Recorded

\* C38: after any sequence of completed RecordAPICall calls with no reset in
\* between, every path has total = success + error = cache_hits +
\* cache_misses; a call is counted as a success exactly when its status is
\* in 200..399 and as an error otherwise; and the global total is the sum of
\* the paths' totals and the number of calls recorded.
RecordCountsAgree ==
    /\ []CountsAgree
    /\ [][(metricsRet'.op = "record" /\ mdb' # mdb) =>
             LET P  == metricsRet'.path
                 ok == metricsRet'.statusCode \in 200 .. 399
             IN  /\ PathCount(mdb', P, "success")
                       = PathCount(mdb, P, "success") + (IF ok THEN 1 ELSE 0)
                 /\ PathCount(mdb', P, "error")
                       = PathCount(mdb, P, "error") + (IF ok THEN 0 ELSE 1)]_vars

\* Three calls were recorded, the last with status 399 on /a, which has two
\* successes and holds no error, and one call on /b.
RecordCountsAgreeWitness ==
    /\ metricsRet.op = "record"
    /\ metricsRet.statusCode = 399 /\ metricsRet.ok
    /\ PathCount(mdb, "/a", "success") = 2
    /\ PathCount(mdb, "/a", "error") = 0
    /\ PathCount(mdb, "/b", "total") = 1
    /\ mdb.counter["metrics:global:total"] = 3

\* ---------------------------------------------------------------------------
\* C39: a ResetMetrics that succeeds leaves the store of the counters, the
\* hashes per path, per day and per hour and the set of known paths empty, so
\* that every stat read afterwards is zero, and leaves the start time of the
\* process as it was; the uptime GetOverallStats reports is the time since
\* the start of the process.
ResetStep ==
    /\ metricsRet'.op = "reset"
    /\ metricsRet'.ok
    /\ <<mdb, startTime>>' # <<mdb, startTime>>

OverallStep ==
    /\ metricsRet'.op = "overall"
    /\ metricsRet' # metricsRet

ResetKeepsStartTime ==
    [][/\ ResetStep => /\ mdb' = EmptyDB
                       /\ GetAPIStats(mdb', "/a").total = 0
                       /\ ReadGlobals(mdb').total = 0
                       /\ startTime' = startTime
       /\ OverallStep => metricsRet'.uptime = upClock - ProcessStart]_vars

(***************************************************************************)
(* Properties of the cache in front of the handlers (checked under         *)
(* SpecServe)                                                              *)
(***************************************************************************)

\* The step in which a request looks its key up.
LookupStep ==
    /\ lastOp'.op = "get"
    /\ \/ recorded /\ ~recorded'
       \/ reqPc = "idle" /\ reqPc' # "idle"

\* The step in which a request that missed answers with what it computed.
FreshRespondStep == reqPc \in {"fresh", "wait"} /\ reqPc' = "responded"

\* The step in which the middleware records the request.
MiddlewareStep == ~recorded /\ recorded'

\* The request answers with the payload under its key, without a fetch
\* upstream, and marks itself as answered from the cache.
AnsweredFromCache ==
    /\ reqPc' = "responded"
    /\ resp'.code = 200
    /\ resp'.source = "redis-cache"
    /\ resp'.data = Get(store, HandlerKey(reqHandler),
                        TypeOf(HandlerType(reqHandler)), TRUE).val
    /\ taskOutcome' = <<>>
    /\ primary' = NoOutcome
    /\ cache_source' = "redis-cache"

\* The request goes on to compute fresh, unmarked.
ComputesFresh ==
    /\ reqPc' = "fresh"
    /\ cache_source' = ""

\* What the middleware records: a hit for a response from the cache, a miss
\* for a fresh one.
RecordsHitOrMiss ==
    /\ MiddlewareStep =>
          /\ metricsRet'.op = "record"
          /\ metricsRet'.statusCode = resp.code
          /\ metricsRet'.cacheHit = (resp.source = "redis-cache")
    /\ FreshRespondStep =>
          /\ resp'.source = FreshSource(reqHandler)
          /\ cache_source' = ""

\* C36 as stated: once a handler has written its fresh result, every
\* request made while the entry is in place (not expired, not invalidated)
\* is answered with the cached payload, fetches nothing upstream and is
\* recorded with cacheHit true; the request that follows a call of the
\* handler's DELETE route computes fresh and is recorded as a miss.
HitUntilInvalidated ==
    [][/\ (LookupStep /\ written[HandlerKey(reqHandler)].st = "set") =>
             AnsweredFromCache
       /\ (LookupStep /\ lastOp.op \in {"delete", "delpattern"}) => ComputesFresh
       /\ RecordsHitOrMiss]_vars

\* C36, amended: the same for the requests whose lookup the store answers,
\* and for the request that follows a call of the DELETE route that removed
\* the entry.
HitWhileStoreAnswers ==
    [][/\ (LookupStep /\ lastOp'.up /\ written[HandlerKey(reqHandler)].st = "set") =>
             AnsweredFromCache
       /\ (LookupStep /\ lastOp.op \in {"delete", "delpattern"}
                      /\ store[HandlerKey(reqHandler)] = Absent) => ComputesFresh
       /\ RecordsHitOrMiss]_vars

\* A request answered from the cache and recorded as a hit, after the DELETE
\* route was called and the entry written again.
HitWhileStoreAnswersWitness ==
    /\ reqPc = "responded"
    /\ resp.source = "redis-cache"
    /\ recorded
    /\ metricsRet.op = "record" /\ metricsRet.cacheHit /\ metricsRet.ok
    /\ invResp.code = 200
    /\ written[HandlerKey(reqHandler)].st = "set"

(***************************************************************************)
(* Properties of concurrent requests for one key (checked under SpecConc)  *)
(***************************************************************************)

\* The aggregation of request r: per category, what its own sub-fetch
\* returned.
Aggregation(r) ==
    Slice([i \in 1 .. Len(ConcTasks) |-> SlotValue(ConcTasks[i], concFetched[r][i])])

\* Request r has aggregated: every sub-fetch of it has returned.
Aggregated(r) ==
    /\ concFetched[r] # <<>>
    /\ \A i \in 1 .. Len(ConcTasks) : concFetched[r][i] # Pending

\* C35: while several requests for the uncached movies key run side by
\* side, the key holds nothing, or the payload of the complete aggregation
\* of one of the requests: never a mixture of two aggregations, never a
\* result with a slot still unfilled.
StoredIsOneAggregation ==
    \/ store[moviesCacheKey] = Absent
    \/ \E r \in Requesters :
          /\ Aggregated(r)
          /\ store[moviesCacheKey] = Marshal(Aggregation(r), TypeOf("categories"))

\* Two requests that aggregated differently have both responded, and the
\* key holds a payload.
StoredIsOneAggregationWitness ==
    /\ \A r \in {1, 2} : concPc[r] = "responded" /\ Aggregated(r)
    /\ Aggregation(1) # Aggregation(2)
    /\ store[moviesCacheKey] # Absent

====
